---------------------------- MODULE Spec2Model ----------------------------
(***************************************************************************)
(* A model of the dryer percussion generator (DrFunn1/drfunn-website,      *)
(* dryer/): the physics engine DryerPhysics (dryer-physics.js), the part   *)
(* of DryerUI and DryerAudio that is keyed by surface ids, and the         *)
(* JavaScript event loop they run on (timers set with setTimeout).         *)
(*                                                                         *)
(* Numbers.  The source computes in IEEE doubles; the model computes in    *)
(* fixed point over the integers:                                          *)
(*    lengths        millimetres          (drumRadius 0.80 m  =  800)      *)
(*    velocities     millimetres/second                                    *)
(*    accelerations  millimetres/second^2 (gravity 9.81       = 9810)      *)
(*    angles         milliradians         (Math.PI            = 3142)      *)
(*    drumAngle      microradians                                          *)
(*    angular speed  milliradians/second                                   *)
(*    step dt        microseconds                                          *)
(*    wall clock     milliseconds         (performance.now(), setTimeout)  *)
(*    mass           grams, restitution / dragCoeff / vaneHeight percent   *)
(*    unit vectors, sines and cosines     thousandths (TrigScale)          *)
(* Every quotient is rounded to nearest.  A value that is NaN in the       *)
(* source (0/0) is kept apart: ball.nan says that the ball position is     *)
(* NaN, and an undefined projection parameter skips the vane, as every     *)
(* comparison with NaN is false.                                           *)
(***************************************************************************)
EXTENDS Integers, Sequences, FiniteSets, TLC

\* ------------------------------------------------------------------------
\* Fixed-point arithmetic (Math.*)
\* ------------------------------------------------------------------------

TrigScale == 1000          \* unit vectors and sin/cos are in thousandths
PI == 3142                 \* Math.PI in milliradians
TwoPi == 2 * PI            \* 2 * Math.PI
HalfPi == PI \div 2

Abs(a) == IF a < 0 THEN -a ELSE a

Min(a, b) == IF a < b THEN a ELSE b

Max(a, b) == IF a > b THEN a ELSE b

\* a / b rounded to the nearest integer (b > 0), halves away from zero.
RoundDiv(a, b) ==
    IF a >= 0 THEN (2 * a + b) \div (2 * b)
              ELSE -((2 * (-a) + b) \div (2 * b))

RECURSIVE SqrtIter(_, _)
SqrtIter(n, x) ==
    LET y == (x + n \div x) \div 2
    IN  IF y >= x THEN x ELSE SqrtIter(n, y)

\* Math.sqrt, rounded to the nearest integer.
Sqrt(n) ==
    IF n <= 0 THEN 0
    ELSE LET f == SqrtIter(n, n)
         IN  IF n - f * f > f THEN f + 1 ELSE f

\* Math.sin of an angle in milliradians, in thousandths (Bhaskara's rational
\* approximation on each half turn; exact at 0, pi/6, pi/2, pi).
Sin(a) ==
    LET m == a % TwoPi
        x == IF m <= PI THEN m ELSE m - PI
        p == x * (PI - x)
        b == RoundDiv(400 * p, RoundDiv(5 * PI * PI - 4 * p, 40))
    IN  IF m <= PI THEN b ELSE -b

\* Math.cos of an angle in milliradians, in thousandths.
Cos(a) == Sin(a + HalfPi)

RECURSIVE AtanSearch(_, _, _, _)
AtanSearch(lo, hi, ax, ay) ==
    IF lo >= hi THEN lo
    ELSE LET mid == (lo + hi + 1) \div 2
         IN  IF ay * Cos(mid) - ax * Sin(mid) >= 0
             THEN AtanSearch(mid, hi, ax, ay)
             ELSE AtanSearch(lo, mid - 1, ax, ay)

\* Math.atan2(y, x) in milliradians, in (-PI, PI]: the angle of the first
\* quadrant is found by bisection on the cross product with (Cos, Sin).
Atan2(y, x) ==
    IF x = 0 /\ y = 0 THEN 0
    ELSE LET a == AtanSearch(0, HalfPi, Abs(x), Abs(y))
         IN  IF y >= 0 THEN (IF x >= 0 THEN a ELSE PI - a)
                       ELSE (IF x >= 0 THEN -a ELSE a - PI)

\* JavaScript's a % b for integers, b # 0: the sign follows the dividend.
JSRem(a, b) ==
    IF a >= 0 THEN a % Abs(b) ELSE -((-a) % Abs(b))


\* ------------------------------------------------------------------------
\* Program constants and model bounds
\* ------------------------------------------------------------------------

EarthGravity == 9810       \* this.earthGravity = 9.81 m/s^2
MoonGravity == 1635        \* this.moonGravity = 1.635 m/s^2
AirDensity == 1225         \* this.airDensity = 1.225 kg/m^3, in g/m^3
LintTrapThreshold == 150   \* this.lintTrapThreshold = 0.15 m/s
DebounceMs == 50           \* setTimeout(..., 50)
BaseNote == 36             \* DryerAudio.baseNote
HighlightFull == 100       \* activeCollisions.set(id, 1.0), in hundredths
HighlightDecay == 5        \* value - 0.05 per render

Null == "null"             \* JavaScript null (no surface id is "null")
Undefined == -1            \* an argument left out (undefined), and NaN as an
                           \* index: no radius, mass or index is negative

MaxLog == 3                \* impacts kept in impactLog
MaxNow == 75               \* the wall clock stops advancing here (ms)

\* The palette of getSurfaceColor.
Colors ==
    << "#ff6b6b", "#4ecdc4", "#ffe66d", "#a8e6cf",
       "#ff8b94", "#c7ceea", "#ffd3b6", "#ffaaa5",
       "#dcedc1", "#a8d8ea", "#ffccf9", "#b4f8c8" >>

\* ------------------------------------------------------------------------
\* State
\* ------------------------------------------------------------------------

VARIABLES
    physics,           \* the DryerPhysics object (its fields, by name)
    timers,            \* pending setTimeout callbacks of triggerCollision,
                       \* in creation order: [id, due]
    now,               \* the wall clock, ms
    impactLog,         \* the last MaxLog calls of triggerCollision
    activeCollisions,  \* DryerUI.activeCollisions: surface id -> highlight
    surfaceToNote,     \* DryerAudio.surfaceToNote: surface id -> MIDI note
    app,               \* the DryerApp object: its fields, audio.isInitialized,
                       \* the callbacks it has pending, and what it did last
    budget             \* what is left of the model's bounds

vars == << physics, timers, now, impactLog, activeCollisions, surfaceToNote,
           app, budget >>

\* ------------------------------------------------------------------------
\* DryerPhysics: construction and configuration
\* ------------------------------------------------------------------------

getSurfaceColor(index) == Colors[(index % Len(Colors)) + 1]

\* The three surface records pushed for vane index i, in push order.
SurfaceTriple(i) ==
    << [type |-> "drum", id |-> "drum_" \o ToString(i), index |-> i,
        color |-> getSurfaceColor(i * 2)],
       [type |-> "vane_leading", id |-> "vane_" \o ToString(i) \o "_lead",
        index |-> i, color |-> getSurfaceColor(i * 2 + 1)],
       [type |-> "vane_trailing", id |-> "vane_" \o ToString(i) \o "_trail",
        index |-> i, color |-> getSurfaceColor(i * 2 + 1)] >>

\* updateSurfaces without this.surfaces = []: the new surfaces are pushed
\* after the old ones.
updateSurfacesAppend(p) ==
    LET n == Max(p.vaneCount, 0)
    IN  [p EXCEPT !.surfaces =
            @ \o [k \in 1..(3 * n) |-> SurfaceTriple((k - 1) \div 3)[((k - 1) % 3) + 1]]]

\* updateSurfaces(): the loop for (i = 0; i < vaneCount; i++) runs
\* max(vaneCount, 0) times.
updateSurfaces(p) ==
    LET n == Max(p.vaneCount, 0)
    IN  [p EXCEPT !.surfaces =
            [k \in 1..(3 * n) |-> SurfaceTriple((k - 1) \div 3)[((k - 1) % 3) + 1]]]

\* A reset() that puts the ball where the constructor's defaults put it,
\* at 0.3 * 0.80 m, whatever the drum radius is now.
resetToDefault(p) ==
    [p EXCEPT !.ball.x = 240,
              !.ball.y = 0,
              !.ball.vx = 0,
              !.ball.vy = 0,
              !.ball.nan = FALSE,
              !.drumAngle = 0]

\* reset()
reset(p) ==
    [p EXCEPT !.ball.x = RoundDiv(p.drumRadius * 3, 10),
              !.ball.y = 0,
              !.ball.vx = 0,
              !.ball.vy = 0,
              !.ball.nan = FALSE,
              !.drumAngle = 0]

\* new DryerPhysics()
Constructed ==
    updateSurfaces(reset(
        [rpm |-> 20,
         drumRadius |-> 800,
         vaneCount |-> 5,
         vaneHeight |-> 30,
         ball |-> [x |-> 0, y |-> 0, vx |-> 0, vy |-> 0, nan |-> FALSE,
                   radius |-> 35, mass |-> 58, restitution |-> 75,
                   dragCoeff |-> 55],
         gravity |-> EarthGravity,
         lintTrapEnabled |-> FALSE,
         moonGravityEnabled |-> FALSE,
         useQuadraticDrag |-> FALSE,
         drumAngle |-> 0,
         drumAngularVelocity |-> 0,
         segmentIndexOffset |-> 0,
         enableCoriolis |-> TRUE,
         enableCentrifugal |-> TRUE,
         enableAirDrag |-> TRUE,
         coriolisSignFlip |-> 1,
         surfaces |-> << >>,
         lastCollisionSurface |-> Null,
         collisionCallbacks |-> << >>]))

\* setParameters(rpm, drumSizeCm, vaneCount, vaneHeightPercent).  The
\* arguments are integers here, on which Math.floor changes nothing.  No
\* argument is validated.
setParameters(p, rpm, drumSizeCm, vaneCount, vaneHeightPercent) ==
    updateSurfaces(
        [p EXCEPT !.rpm = rpm,
                  !.drumRadius = drumSizeCm * 10,
                  !.vaneCount = vaneCount,
                  !.vaneHeight = vaneHeightPercent,
                  !.drumAngularVelocity = RoundDiv(rpm * 2 * PI, 60)])

\* A setBallProperties that assigns all four arguments as they come, the
\* omitted ones (undefined) too.
setBallPropertiesAll(p, radius, mass, restitution, dragCoeff) ==
    [p EXCEPT !.ball.radius = radius,
              !.ball.mass = mass,
              !.ball.restitution = restitution,
              !.ball.dragCoeff = dragCoeff]

\* setBallProperties(radius, mass, restitution, dragCoeff); an argument may
\* be Undefined.
setBallProperties(p, radius, mass, restitution, dragCoeff) ==
    [p EXCEPT !.ball.radius = IF radius # Undefined THEN radius ELSE @,
              !.ball.mass = IF mass # Undefined THEN mass ELSE @,
              !.ball.restitution = IF restitution # Undefined THEN restitution ELSE @,
              !.ball.dragCoeff = IF dragCoeff # Undefined THEN dragCoeff ELSE @]

setTennisBall(p) == setBallProperties(p, 35, 58, 75, 55)

setBalloonBall(p) == setBallProperties(p, 75, 1, 10, 47)

\* dryerDebug.setBall(radius, mass): each is assigned if it is truthy
\* (given, and not 0).
debugSetBall(p, radius, mass) ==
    [p EXCEPT !.ball.radius = IF radius \notin {Undefined, 0} THEN radius ELSE @,
              !.ball.mass = IF mass \notin {Undefined, 0} THEN mass ELSE @]

\* dryerDebug.tennisBall(): setBall(0.035, 0.058), then dragCoeff = 0.55.
debugTennisBall(p) == [debugSetBall(p, 35, 58) EXCEPT !.ball.dragCoeff = 55]

setLintTrap(p, enabled) == [p EXCEPT !.lintTrapEnabled = enabled]

setMoonGravity(p, enabled) ==
    [p EXCEPT !.moonGravityEnabled = enabled,
              !.gravity = IF enabled THEN MoonGravity ELSE EarthGravity]

\* dryerDebug.fixSegmentOffset(offset), called with an offset.
fixSegmentOffset(p, offset) == [p EXCEPT !.segmentIndexOffset = offset]

\* toggleCoriolis() and toggleCentrifugal() called without an argument, as
\* dryerDebug.coriolis() and dryerDebug.centrifugal() call them.
toggleCoriolis(p) == [p EXCEPT !.enableCoriolis = ~@]

toggleCentrifugal(p) == [p EXCEPT !.enableCentrifugal = ~@]

\* toggleDrag() with no argument
toggleDrag(p) == [p EXCEPT !.enableAirDrag = ~@]

onCollision(p, callback) ==
    [p EXCEPT !.collisionCallbacks = Append(@, callback)]

\* The ids of a surface array.
Ids(surfaces) == {surfaces[k].id : k \in DOMAIN surfaces}

\* surfaces.find(s => s.type === type && s.index === index): the first
\* match as a one-element sequence, or << >> (undefined).
FindSurface(surfaces, type, index) ==
    LET hits == {k \in DOMAIN surfaces :
                    surfaces[k].type = type /\ surfaces[k].index = index}
    IN  IF hits = {} THEN << >>
        ELSE << surfaces[CHOOSE k \in hits : \A j \in hits : k <= j] >>

\* ------------------------------------------------------------------------
\* DryerPhysics.triggerCollision and its cooldown timer
\* ------------------------------------------------------------------------

\* What an action works on: the engine, the timers it has scheduled, the
\* record of the calls of triggerCollision and the highlights of the UI.
World == [p |-> physics, timers |-> timers, log |-> impactLog,
          hl |-> activeCollisions]

PushLog(log, e) ==
    IF Len(log) < MaxLog THEN Append(log, e) ELSE Append(Tail(log), e)

\* One call of triggerCollision as impactLog records it: the state the
\* call found (w), the state it left (after) and the listeners it invoked.
LogEntry(w, after, surface, velocity, notified) ==
    [id |-> surface.id, type |-> surface.type, index |-> surface.index,
     velocity |-> velocity, time |-> now, stepsLeft |-> budget.steps,
     lint |-> w.p.lintTrapEnabled,
     vaneCount |-> w.p.vaneCount,
     segmentIndexOffset |-> w.p.segmentIndexOffset,
     x |-> w.p.ball.x, y |-> w.p.ball.y,
     slotBefore |-> w.p.lastCollisionSurface,
     slotAfter |-> after.p.lastCollisionSurface,
     pendingBefore |-> {w.timers[k].id : k \in DOMAIN w.timers},
     scheduled |-> Len(after.timers) - Len(w.timers),
     listeners |-> w.p.collisionCallbacks,
     notified |-> notified]

Logged(w, after, surface, velocity, notified) ==
    [after EXCEPT !.log = PushLog(@, LogEntry(w, after, surface, velocity, notified))]

\* The listener DryerApp.init registers ("app"): audio.onCollision, which
\* only makes sound, and ui.highlightCollision(surface.id).
highlightCollision(hl, surfaceId) ==
    [k \in DOMAIN hl \cup {surfaceId} |->
        IF k = surfaceId THEN HighlightFull ELSE hl[k]]

Notify(w, surface) ==
    IF \E k \in DOMAIN w.p.collisionCallbacks : w.p.collisionCallbacks[k] = "app"
    THEN highlightCollision(w.hl, surface.id)
    ELSE w.hl

\* A debounce keyed on the pending cooldown timers (one per surface)
\* instead of the single slot.
triggerCollisionPerSurface(w, surface, velocity) ==
    IF w.p.lintTrapEnabled /\ velocity < LintTrapThreshold
    THEN Logged(w, w, surface, velocity, << >>)
    ELSE IF \E k \in DOMAIN w.timers : w.timers[k].id = surface.id
    THEN Logged(w, w, surface, velocity, << >>)
    ELSE Logged(w,
                [w EXCEPT !.p.lastCollisionSurface = surface.id,
                          !.timers = Append(@, [id |-> surface.id,
                                                due |-> now + DebounceMs]),
                          !.hl = Notify(w, surface)],
                surface, velocity, w.p.collisionCallbacks)

\* A lint trap that takes the debounce slot before it discards the impact.
triggerCollisionLintLate(w, surface, velocity) ==
    IF w.p.lastCollisionSurface = surface.id
    THEN Logged(w, w, surface, velocity, << >>)
    ELSE IF w.p.lintTrapEnabled /\ velocity < LintTrapThreshold
    THEN Logged(w, [w EXCEPT !.p.lastCollisionSurface = surface.id],
                surface, velocity, << >>)
    ELSE Logged(w,
                [w EXCEPT !.p.lastCollisionSurface = surface.id,
                          !.timers = Append(@, [id |-> surface.id,
                                                due |-> now + DebounceMs]),
                          !.hl = Notify(w, surface)],
                surface, velocity, w.p.collisionCallbacks)

\* A dispatch that stops after the first listener.
triggerCollisionFirstOnly(w, surface, velocity) ==
    IF w.p.lintTrapEnabled /\ velocity < LintTrapThreshold
    THEN Logged(w, w, surface, velocity, << >>)
    ELSE IF w.p.lastCollisionSurface = surface.id
    THEN Logged(w, w, surface, velocity, << >>)
    ELSE Logged(w,
                [w EXCEPT !.p.lastCollisionSurface = surface.id,
                          !.timers = Append(@, [id |-> surface.id,
                                                due |-> now + DebounceMs]),
                          !.hl = Notify(w, surface)],
                surface, velocity, SubSeq(w.p.collisionCallbacks, 1, 1))

\* A triggerCollision whose emitted events stop the ball.
triggerCollisionAbsorbs(w, surface, velocity) ==
    IF w.p.lintTrapEnabled /\ velocity < LintTrapThreshold
    THEN Logged(w, w, surface, velocity, << >>)
    ELSE IF w.p.lastCollisionSurface = surface.id
    THEN Logged(w, w, surface, velocity, << >>)
    ELSE Logged(w,
                [w EXCEPT !.p.lastCollisionSurface = surface.id,
                          !.p.ball.vx = 0,
                          !.p.ball.vy = 0,
                          !.timers = Append(@, [id |-> surface.id,
                                                due |-> now + DebounceMs]),
                          !.hl = Notify(w, surface)],
                surface, velocity, w.p.collisionCallbacks)

\* triggerCollision(surface, velocity)
triggerCollision(w, surface, velocity) ==
    IF w.p.lintTrapEnabled /\ velocity < LintTrapThreshold
    THEN Logged(w, w, surface, velocity, << >>)
    ELSE IF w.p.lastCollisionSurface = surface.id
    THEN Logged(w, w, surface, velocity, << >>)
    ELSE Logged(w,
                [w EXCEPT !.p.lastCollisionSurface = surface.id,
                          !.timers = Append(@, [id |-> surface.id,
                                                due |-> now + DebounceMs]),
                          !.hl = Notify(w, surface)],
                surface, velocity, w.p.collisionCallbacks)

\* A cooldown callback that leaves the slot as it finds it.
cooldownKeepsSlot(p, id) == p

\* The callback of setTimeout(() => {...}, 50) for surface id.
cooldownExpired(p, id) ==
    IF p.lastCollisionSurface = id
    THEN [p EXCEPT !.lastCollisionSurface = Null]
    ELSE p

\* ------------------------------------------------------------------------
\* DryerPhysics.step
\* ------------------------------------------------------------------------

\* ball.area: Math.PI * radius * radius, in mm^2.
area(ball) == RoundDiv(PI * ball.radius * ball.radius, TrigScale)

\* The quadratic drag acceleration 0.5 * rho * v^2 * Cd * A / mass, mm/s^2.
dragAccelMagnitude(ball, speed) ==
    LET c == RoundDiv(AirDensity * ball.dragCoeff * area(ball),
                      2 * ball.mass * 100000)
    IN  RoundDiv(RoundDiv(speed * speed, 1000) * c, 1000)

\* v * Math.exp(-0.1 * dt), to first order in dt (dt in microseconds).
dampingFactor(v, dt) == v - RoundDiv(v * dt, 10000000)

\* The centrifugal acceleration without the test distFromCenter > 0.0001:
\* at the centre it is 0 / 0 * 0, NaN.
centrifugalUnguarded(p) ==
    LET b == p.ball
        w == p.drumAngularVelocity
        distFromCenter == Sqrt(b.x * b.x + b.y * b.y)
        centrifugalMagnitude == RoundDiv(RoundDiv(w * w, 1000) * distFromCenter, 1000)
    IN  IF ~p.enableCentrifugal THEN [x |-> 0, y |-> 0, nan |-> FALSE]
        ELSE IF b.nan \/ distFromCenter = 0 THEN [x |-> 0, y |-> 0, nan |-> TRUE]
        ELSE [x |-> RoundDiv(b.x * centrifugalMagnitude, distFromCenter),
              y |-> RoundDiv(b.y * centrifugalMagnitude, distFromCenter),
              nan |-> FALSE]

\* The centrifugal acceleration of step(dt): (centrifugalX, centrifugalY),
\* and whether it is NaN.  It stays (0, 0) unless the force is enabled and
\* distFromCenter > 0.0001 (a tenth of a millimetre); with the position NaN
\* the test NaN > 0.0001 is false.
centrifugal(p) ==
    LET b == p.ball
        w == p.drumAngularVelocity
        distFromCenter == Sqrt(b.x * b.x + b.y * b.y)
        centOn == p.enableCentrifugal /\ ~b.nan /\ distFromCenter * 10 > 1
        centrifugalMagnitude == RoundDiv(RoundDiv(w * w, 1000) * distFromCenter, 1000)
    IN  [x |-> IF centOn THEN RoundDiv(b.x * centrifugalMagnitude, distFromCenter) ELSE 0,
         y |-> IF centOn THEN RoundDiv(b.y * centrifugalMagnitude, distFromCenter) ELSE 0,
         nan |-> FALSE]

\* step(dt) up to the call of handleCollisions: the drum angle, the
\* accelerations, the velocity and the position.  With the position NaN the
\* centrifugal guard (NaN > 0.0001) is false, so the velocity stays finite;
\* an acceleration that is NaN makes the velocity and the position NaN.
integrate(p, dt) ==
    LET b == p.ball
        w == p.drumAngularVelocity
        angle == p.drumAngle + RoundDiv(w * dt, 1000)
        a == RoundDiv(angle, 1000)
        gravityX == -RoundDiv(p.gravity * Sin(a), TrigScale)
        gravityY == -RoundDiv(p.gravity * Cos(a), TrigScale)
        c == centrifugal(p)
        centrifugalX == c.x
        centrifugalY == c.y
        nan == b.nan \/ c.nan
        sign == IF p.coriolisSignFlip = 0 THEN 1 ELSE p.coriolisSignFlip
        coriolisX == IF p.enableCoriolis THEN RoundDiv(sign * 2 * w * b.vy, 1000) ELSE 0
        coriolisY == IF p.enableCoriolis THEN RoundDiv(sign * (-2) * w * b.vx, 1000) ELSE 0
        speed == Sqrt(b.vx * b.vx + b.vy * b.vy)
        dragOn == p.enableAirDrag /\ speed > 1
        quad == dragOn /\ p.useQuadraticDrag
        linear == dragOn /\ ~p.useQuadraticDrag
        dragX == IF quad THEN -RoundDiv(b.vx * dragAccelMagnitude(b, speed), speed) ELSE 0
        dragY == IF quad THEN -RoundDiv(b.vy * dragAccelMagnitude(b, speed), speed) ELSE 0
        vx0 == IF linear THEN dampingFactor(b.vx, dt) ELSE b.vx
        vy0 == IF linear THEN dampingFactor(b.vy, dt) ELSE b.vy
        totalAccelX == gravityX + centrifugalX + coriolisX
                       + (IF p.useQuadraticDrag THEN dragX ELSE 0)
        totalAccelY == gravityY + centrifugalY + coriolisY
                       + (IF p.useQuadraticDrag THEN dragY ELSE 0)
        vx == vx0 + RoundDiv(totalAccelX * dt, 1000000)
        vy == vy0 + RoundDiv(totalAccelY * dt, 1000000)
    IN  [p EXCEPT !.drumAngle = angle,
                  !.ball.vx = vx,
                  !.ball.vy = vy,
                  !.ball.nan = nan,
                  !.ball.x = IF nan THEN 0 ELSE b.x + RoundDiv(vx * dt, 1000000),
                  !.ball.y = IF nan THEN 0 ELSE b.y + RoundDiv(vy * dt, 1000000)]

\* A reflection that takes no account of the restitution: v -= 2 * vn * n.
reflectElastic(v, restitution, vn, n) ==
    v - RoundDiv(2 * vn * n, TrigScale)

\* The reflection v -= (1 + restitution) * vn * n of one velocity component.
reflect(v, restitution, vn, n) ==
    v - RoundDiv(RoundDiv((100 + restitution) * vn, 100) * n, TrigScale)

\* The ball position set to NaN (x += NaN * penetration).
PositionNaN(w) == [w EXCEPT !.p.ball.x = 0, !.p.ball.y = 0, !.p.ball.nan = TRUE]

\* segmentIndex without the repair of a negative remainder.
segmentIndexNoRepair(p, x, y) ==
    LET ballAngle == Atan2(y, x)
        normalizedAngle == IF ballAngle < 0 THEN ballAngle + TwoPi ELSE ballAngle
    IN  IF p.vaneCount = 0 THEN Undefined
        ELSE JSRem(JSRem((normalizedAngle * p.vaneCount) \div TwoPi, p.vaneCount)
                   + p.segmentIndexOffset, p.vaneCount)

\* A segmentIndex that rounds the sector up instead of down.
segmentIndexCeil(p, x, y) ==
    LET ballAngle == Atan2(y, x)
        normalizedAngle == IF ballAngle < 0 THEN ballAngle + TwoPi ELSE ballAngle
    IN  IF p.vaneCount = 0 THEN Undefined
        ELSE JSRem((normalizedAngle * p.vaneCount) \div TwoPi + 1, p.vaneCount)

\* The drum segment of a wall impact at the (corrected) ball position:
\* Math.floor(normalizedAngle / anglePerSegment) % vaneCount, then the
\* offset, then the fix of a negative remainder.  With vaneCount = 0 the
\* index is NaN (Undefined), which matches no surface.
segmentIndex(p, x, y) ==
    LET ballAngle == Atan2(y, x)
        normalizedAngle == IF ballAngle < 0 THEN ballAngle + TwoPi ELSE ballAngle
    IN  IF p.vaneCount = 0 THEN Undefined
        ELSE LET raw == JSRem((normalizedAngle * p.vaneCount) \div TwoPi, p.vaneCount)
                 shifted == JSRem(raw + p.segmentIndexOffset, p.vaneCount)
             IN  IF shifted < 0 THEN shifted + p.vaneCount ELSE shifted

\* The wall test of handleCollisions finds the ball moving into the wall:
\* ballDist + radius > drumRadius and vn < 0.
movingIntoWall(p) ==
    LET b == p.ball
        ballDist == Sqrt(b.x * b.x + b.y * b.y)
        nx == RoundDiv(-b.x * TrigScale, ballDist)
        ny == RoundDiv(-b.y * TrigScale, ballDist)
    IN  /\ ~b.nan
        /\ ballDist + b.radius > p.drumRadius
        /\ ballDist # 0
        /\ RoundDiv(b.vx * nx + b.vy * ny, TrigScale) < 0

\* A wall test that reflects and reports whatever the sign of vn is.
wallCollisionNoSeparation(w) ==
    LET p == w.p
        b == p.ball
        ballDist == Sqrt(b.x * b.x + b.y * b.y)
        penetration == ballDist + b.radius - p.drumRadius
    IN  IF b.nan \/ ~(ballDist + b.radius > p.drumRadius) THEN w
        ELSE IF ballDist = 0 THEN PositionNaN(w)
        ELSE LET nx == RoundDiv(-b.x * TrigScale, ballDist)
                 ny == RoundDiv(-b.y * TrigScale, ballDist)
                 x == b.x + RoundDiv(nx * penetration, TrigScale)
                 y == b.y + RoundDiv(ny * penetration, TrigScale)
                 vn == RoundDiv(b.vx * nx + b.vy * ny, TrigScale)
                 surface == FindSurface(p.surfaces, "drum", segmentIndex(p, x, y))
                 bounced == [w EXCEPT
                                !.p.ball.x = x,
                                !.p.ball.y = y,
                                !.p.ball.vx = reflect(b.vx, b.restitution, vn, nx),
                                !.p.ball.vy = reflect(b.vy, b.restitution, vn, ny)]
             IN  IF surface = << >> THEN bounced
                 ELSE triggerCollision(bounced, surface[1], Abs(vn))

\* handleCollisions() up to the call of checkVaneCollisions: the drum wall.
wallCollision(w) ==
    LET p == w.p
        b == p.ball
        ballDist == Sqrt(b.x * b.x + b.y * b.y)
        penetration == ballDist + b.radius - p.drumRadius
    IN  IF b.nan \/ ~(ballDist + b.radius > p.drumRadius) THEN w
        ELSE IF ballDist = 0 THEN PositionNaN(w)
        ELSE LET nx == RoundDiv(-b.x * TrigScale, ballDist)
                 ny == RoundDiv(-b.y * TrigScale, ballDist)
                 x == b.x + RoundDiv(nx * penetration, TrigScale)
                 y == b.y + RoundDiv(ny * penetration, TrigScale)
                 vn == RoundDiv(b.vx * nx + b.vy * ny, TrigScale)
                 moved == [w EXCEPT !.p.ball.x = x, !.p.ball.y = y]
                 surface == FindSurface(p.surfaces, "drum", segmentIndex(p, x, y))
                 bounced == [moved EXCEPT
                                !.p.ball.vx = reflect(b.vx, b.restitution, vn, nx),
                                !.p.ball.vy = reflect(b.vy, b.restitution, vn, ny)]
             IN  IF ~(vn < 0) THEN moved
                 ELSE IF surface = << >> THEN bounced
                 ELSE triggerCollision(bounced, surface[1], Abs(vn))

\* The point of vane i at a distance radius from the centre:
\* (radius * cos(vaneAngle), radius * sin(vaneAngle)).
vanePoint(p, i, radius) ==
    [x |-> RoundDiv(radius * Cos(RoundDiv(i * TwoPi, p.vaneCount)), TrigScale),
     y |-> RoundDiv(radius * Sin(RoundDiv(i * TwoPi, p.vaneCount)), TrigScale)]

\* The inner end (vx1, vy1) and the outer end (vx2, vy2) of vane i.
vaneInner(p, i) == vanePoint(p, i, RoundDiv(p.drumRadius * (100 - p.vaneHeight), 100))
vaneOuter(p, i) == vanePoint(p, i, p.drumRadius)

\* One pass of the loop of checkVaneCollisions(), for vane i with the ends
\* inner and outer.
vaneContact(w, i, inner, outer) ==
    LET p == w.p
        b == p.ball
        vx1 == inner.x
        vy1 == inner.y
        vx2 == outer.x
        vy2 == outer.y
        dx == b.x - vx1
        dy == b.y - vy1
        vdx == vx2 - vx1
        vdy == vy2 - vy1
        lengthSq == vdx * vdx + vdy * vdy
        dot == dx * vdx + dy * vdy
        closestX == vx1 + RoundDiv(dot * vdx, lengthSq)
        closestY == vy1 + RoundDiv(dot * vdy, lengthSq)
        distX == b.x - closestX
        distY == b.y - closestY
        dist == Sqrt(distX * distX + distY * distY)
        penetration == b.radius - dist
    IN  \* t is NaN for a vane of length 0, and with the ball position NaN
        IF b.nan \/ lengthSq = 0 \/ ~(dot >= 0 /\ dot <= lengthSq) THEN w
        ELSE IF ~(dist < b.radius) THEN w
        ELSE IF dist = 0 THEN PositionNaN(w)
        ELSE LET nx == RoundDiv(distX * TrigScale, dist)
                 ny == RoundDiv(distY * TrigScale, dist)
                 vn == RoundDiv(b.vx * nx + b.vy * ny, TrigScale)
                 moved == [w EXCEPT
                              !.p.ball.x = b.x + RoundDiv(nx * penetration, TrigScale),
                              !.p.ball.y = b.y + RoundDiv(ny * penetration, TrigScale)]
                 side == IF dy * vdx - dx * vdy > 0 THEN "vane_leading"
                         ELSE "vane_trailing"
                 surface == FindSurface(p.surfaces, side, i)
                 bounced == [moved EXCEPT
                                !.p.ball.vx = reflect(b.vx, b.restitution, vn, nx),
                                !.p.ball.vy = reflect(b.vy, b.restitution, vn, ny)]
             IN  IF ~(vn < 0) THEN moved
                 ELSE IF surface = << >> THEN bounced
                 ELSE triggerCollision(bounced, surface[1], Abs(vn))

\* A vane test that reports an impact on both faces of the vane.
vaneCollisionBothFaces(w, i) ==
    LET hit == vaneContact(w, i, vaneInner(w.p, i), vaneOuter(w.p, i))
        last == hit.log[Len(hit.log)]
        face == IF last.type = "vane_leading" THEN "vane_trailing" ELSE "vane_leading"
    IN  IF hit.log = w.log THEN hit
        ELSE triggerCollision(hit, FindSurface(w.p.surfaces, face, i)[1], last.velocity)

\* One pass of the loop of checkVaneCollisions(), for vane i.
vaneCollision(w, i) == vaneContact(w, i, vaneInner(w.p, i), vaneOuter(w.p, i))

RECURSIVE vaneLoop(_, _)
vaneLoop(w, i) ==
    IF i < w.p.vaneCount THEN vaneLoop(vaneCollision(w, i), i + 1) ELSE w

\* checkVaneCollisions()
checkVaneCollisions(w) == vaneLoop(w, 0)

\* handleCollisions()
handleCollisions(w) == checkVaneCollisions(wallCollision(w))

\* step(dt)
step(w, dt) == handleCollisions([w EXCEPT !.p = integrate(w.p, dt)])

\* ------------------------------------------------------------------------
\* DryerAudio and DryerUI: the state keyed by surface ids
\* ------------------------------------------------------------------------

\* assignNotesToSurfaces(surfaces): the map is cleared, then each surface
\* id is set to baseNote + its (0-based) position; a repeated id keeps the
\* note set last.
assignNotesToSurfaces(surfaces) ==
    [id \in Ids(surfaces) |->
        BaseNote + (CHOOSE k \in DOMAIN surfaces :
                       /\ surfaces[k].id = id
                       /\ \A j \in DOMAIN surfaces : surfaces[j].id = id => j <= k) - 1]

\* updateCollisionHighlights(): every highlight decays by 0.05 and is
\* deleted once it is not positive.
updateCollisionHighlights(hl) ==
    [id \in {k \in DOMAIN hl : hl[k] - HighlightDecay > 0} |-> hl[id] - HighlightDecay]

\* ------------------------------------------------------------------------
\* DryerApp: start, stop and the animation loop
\* ------------------------------------------------------------------------

FrameClampMicros == 33000  \* Math.min(deltaTime, 0.033)
Substeps == 4              \* const substeps = 4

\* The calls physics.step(dt) for the dt of a sequence, in order.
RECURSIVE RunSteps(_, _)
RunSteps(w, dts) ==
    IF dts = << >> THEN w ELSE RunSteps(step(w, Head(dts)), Tail(dts))

\* The dt of the substeps of a frame: substepDelta = deltaTime / substeps,
\* once for each substep.
SubstepDts(delta) == [i \in 1..Substeps |-> RoundDiv(delta, Substeps)]

\* animate() past the test of isRunning, with performance.now() = t, on the
\* host h = [w: the engine's world, a: the app]: the substeps, ui.render()
\* and requestAnimationFrame; delta is the frame delta in microseconds that
\* the substeps share.
Frame(h, t, delta) ==
    [w |-> [RunSteps(h.w, SubstepDts(delta)) EXCEPT
               !.hl = updateCollisionHighlights(@)],
     a |-> [h.a EXCEPT !.lastTime = t,
                       !.animationFrameId = "frame",
                       !.frames = @ + 1,
                       !.frame = [delta |-> t - h.a.lastTime,
                                  dts |-> SubstepDts(delta)]]]

\* An animate() that passes the frame delta on as it is.
animateUnclamped(h, t) ==
    IF ~h.a.isRunning THEN h
    ELSE Frame(h, t, (t - h.a.lastTime) * 1000)

\* animate()
animate(h, t) ==
    IF ~h.a.isRunning THEN h
    ELSE Frame(h, t, Min((t - h.a.lastTime) * 1000, FrameClampMicros))

\* start() from 'this.isRunning = true' on.
startLoop(h, t) ==
    animate([h EXCEPT !.a.isRunning = TRUE, !.a.lastTime = t], t)

\* stop() past the test of isRunning: the frame named by animationFrameId
\* is cancelled, then physics.reset() and ui.render().
stop(h) ==
    [w |-> [h.w EXCEPT !.p = reset(@), !.hl = updateCollisionHighlights(@)],
     a |-> [h.a EXCEPT !.isRunning = FALSE,
                       !.frames = IF h.a.animationFrameId # Null THEN @ - 1 ELSE @,
                       !.animationFrameId = Null]]

\* ------------------------------------------------------------------------
\* DryerUI: the knobs
\* ------------------------------------------------------------------------

\* knobConfigs of initKnobs(), in the order the knobs are set up and their
\* listeners are registered.
knobConfigs ==
    << [id |-> "rpm", min |-> 0, max |-> 35, initial |-> 18, step |-> 1],
       [id |-> "drumSize", min |-> 40, max |-> 80, initial |-> 60, step |-> 1],
       [id |-> "vanes", min |-> 1, max |-> 7, initial |-> 4, step |-> 1],
       [id |-> "vaneHeight", min |-> 10, max |-> 50, initial |-> 30, step |-> 1] >>

\* initKnob(config): the record kept in this.knobs[config.id].
initKnob(config) ==
    [value |-> config.initial, min |-> config.min, max |-> config.max,
     step |-> config.step, isDragging |-> FALSE, startY |-> 0,
     startValue |-> config.initial]

\* initKnobs(): this.knobs once every config has been through initKnob.
initKnobs ==
    [id \in {knobConfigs[k].id : k \in DOMAIN knobConfigs} |->
        initKnob(knobConfigs[CHOOSE k \in DOMAIN knobConfigs : knobConfigs[k].id = id])]

\* Math.round(deltaY / sensitivity) with sensitivity = 2, for an integer
\* deltaY: halves go up (Math.round(-3.5) is -3).
dragSteps(deltaY) == (deltaY + 1) \div 2

\* getParameters()
getParameters(knobs) ==
    [rpm |-> knobs["rpm"].value,
     drumSize |-> knobs["drumSize"].value,
     vanes |-> knobs["vanes"].value,
     vaneHeight |-> knobs["vaneHeight"].value]

\* The handler DryerApp.init stores in ui.onParameterChange, on
\* u = [knobs, p: the engine, notes: the note map, handed: the parameters
\* the handler has passed to setParameters during the current event]:
\* setParameters with the knob values, then assignNotesToSurfaces.
onParameterChange(u) ==
    LET params == getParameters(u.knobs)
        p == setParameters(u.p, params.rpm, params.drumSize, params.vanes,
                           params.vaneHeight)
    IN  [u EXCEPT !.p = p,
                  !.notes = assignNotesToSurfaces(p.surfaces),
                  !.handed = Append(@, params)]

\* startKnobDrag(knobId, event)
startKnobDrag(knobs, knobId, clientY) ==
    [knobs EXCEPT ![knobId].isDragging = TRUE,
                  ![knobId].startY = clientY,
                  ![knobId].startValue = knobs[knobId].value]

\* An updateKnobDrag that does not clamp the new value to [min, max].
updateKnobDragUnclamped(u, knobId, clientY) ==
    LET knob == u.knobs[knobId]
        newValue == knob.startValue + dragSteps(knob.startY - clientY) * knob.step
    IN  IF ~knob.isDragging \/ newValue = knob.value THEN u
        ELSE onParameterChange([u EXCEPT !.knobs[knobId].value = newValue])

\* updateKnobDrag(knobId, event)
updateKnobDrag(u, knobId, clientY) ==
    LET knob == u.knobs[knobId]
        deltaY == knob.startY - clientY
        steps == dragSteps(deltaY)
        newValue == Max(knob.min, Min(knob.max, knob.startValue + steps * knob.step))
    IN  IF ~knob.isDragging \/ newValue = knob.value THEN u
        ELSE onParameterChange([u EXCEPT !.knobs[knobId].value = newValue])

\* endKnobDrag(knobId)
endKnobDrag(knobs, knobId) == [knobs EXCEPT ![knobId].isDragging = FALSE]

\* A 'mousemove' (or 'touchmove') on the document: the listener of each
\* knob runs updateKnobDrag, in the order of registration.
RECURSIVE pointerMove(_, _, _)
pointerMove(u, k, clientY) ==
    IF k > Len(knobConfigs) THEN u
    ELSE pointerMove(updateKnobDrag(u, knobConfigs[k].id, clientY), k + 1, clientY)

\* The knobs as they stand when their values are those of engine p.
knobsAt(p) ==
    LET value == [rpm |-> p.rpm, drumSize |-> p.drumRadius \div 10,
                  vanes |-> p.vaneCount, vaneHeight |-> p.vaneHeight]
    IN  [id \in DOMAIN initKnobs |->
            [initKnobs[id] EXCEPT !.value = value[id], !.startValue = value[id]]]

\* ------------------------------------------------------------------------
\* Actions
\* ------------------------------------------------------------------------

Spend(what) == [budget EXCEPT ![what] = @ - 1]

\* physics.setParameters(...) called directly, with any of the inputs.
SetParameters(inputs) ==
    /\ budget.ops > 0
    /\ \E c \in inputs :
          physics' = setParameters(physics, c.rpm, c.drumSize, c.vanes, c.vaneHeight)
    /\ budget' = Spend("ops")
    /\ UNCHANGED << timers, now, impactLog, activeCollisions, surfaceToNote, app >>

\* An onParameterChange handler that leaves the note map as it is.
OnParameterChangeNoRemap(inputs) ==
    /\ budget.ops > 0
    /\ \E c \in inputs :
          physics' = setParameters(physics, c.rpm, c.drumSize, c.vanes, c.vaneHeight)
    /\ budget' = Spend("ops")
    /\ UNCHANGED << timers, now, impactLog, activeCollisions, surfaceToNote, app >>

\* DryerApp's ui.onParameterChange: setParameters with the knob values, then
\* audio.assignNotesToSurfaces(physics.surfaces).
OnParameterChange(inputs) ==
    /\ budget.ops > 0
    /\ \E c \in inputs :
          LET p == setParameters(physics, c.rpm, c.drumSize, c.vanes, c.vaneHeight)
          IN  /\ physics' = p
              /\ surfaceToNote' = assignNotesToSurfaces(p.surfaces)
    /\ budget' = Spend("ops")
    /\ UNCHANGED << timers, now, impactLog, activeCollisions, app >>

\* The effect of an engine call on the state.
Becomes(w) ==
    \E r \in {w} :
        /\ physics' = r.p
        /\ timers' = r.timers
        /\ impactLog' = r.log
        /\ activeCollisions' = r.hl

\* physics.triggerCollision(surface, velocity) for a surface of the current
\* set, taken at one of the given positions of the array, and an impact
\* speed.
TriggerCollision(positions, speeds) ==
    /\ budget.impacts > 0
    /\ \E k \in DOMAIN physics.surfaces \cap positions, v \in speeds :
          Becomes(triggerCollision(World, physics.surfaces[k], v))
    /\ budget' = Spend("impacts")
    /\ UNCHANGED << now, surfaceToNote, app >>

\* physics.step(dt).  A step of no duration (the frame animate() runs
\* within start(), before the clock has moved) is counted apart.
Step(dts) ==
    /\ \E dt \in dts :
          LET cost == IF dt = 0 THEN "idle" ELSE "steps"
          IN  /\ budget[cost] > 0
              /\ Becomes(step(World, dt))
              /\ budget' = Spend(cost)
    /\ UNCHANGED << now, surfaceToNote, app >>

\* physics.setBalloonBall()
SetBalloonBall ==
    /\ budget.ops > 0
    /\ physics' = setBalloonBall(physics)
    /\ budget' = Spend("ops")
    /\ UNCHANGED << timers, now, impactLog, activeCollisions, surfaceToNote, app >>

\* physics.setBallProperties(radius, mass, restitution, dragCoeff)
SetBallPropertiesWith(radius, mass, restitution, dragCoeff) ==
    /\ budget.ops > 0
    /\ physics' = setBallProperties(physics, radius, mass, restitution, dragCoeff)
    /\ budget' = Spend("ops")
    /\ UNCHANGED << timers, now, impactLog, activeCollisions, surfaceToNote, app >>

\* physics.setBallProperties(...) with each argument given (the value of
\* inputs) or left out.
SetBallProperties(inputs) ==
    \E radius \in {Undefined, inputs.radius}, mass \in {Undefined, inputs.mass},
       restitution \in {Undefined, inputs.restitution},
       dragCoeff \in {Undefined, inputs.dragCoeff} :
        SetBallPropertiesWith(radius, mass, restitution, dragCoeff)

\* physics.setTennisBall(), as dryerDebug.tennis() calls it.
SetTennisBall ==
    /\ budget.ops > 0
    /\ physics' = setTennisBall(physics)
    /\ budget' = Spend("ops")
    /\ UNCHANGED << timers, now, impactLog, activeCollisions, surfaceToNote, app >>

\* The change handler of ballTypeSelect with the value 'tennis':
\* setTennisBall(), then, unless the loop is running, reset() and
\* ui.render(), which lets the highlights decay.
SelectTennis ==
    /\ budget.ops > 0
    /\ physics' = IF app.isRunning THEN setTennisBall(physics)
                   ELSE reset(setTennisBall(physics))
    /\ activeCollisions' = IF app.isRunning THEN activeCollisions
                            ELSE updateCollisionHighlights(activeCollisions)
    /\ budget' = Spend("ops")
    /\ UNCHANGED << timers, now, impactLog, surfaceToNote, app >>

\* dryerDebug.tennisBall()
DebugTennisBall ==
    /\ budget.ops > 0
    /\ physics' = debugTennisBall(physics)
    /\ budget' = Spend("ops")
    /\ UNCHANGED << timers, now, impactLog, activeCollisions, surfaceToNote, app >>

\* physics.reset()
Reset ==
    /\ budget.ops > 0
    /\ physics' = reset(physics)
    /\ budget' = Spend("ops")
    /\ UNCHANGED << timers, now, impactLog, activeCollisions, surfaceToNote, app >>

\* The host as the actions of DryerApp find it.
Host == [w |-> World, a |-> app]

\* The effect of a call of DryerApp on the state; click tells whether a
\* click has caused it, steps whether it has run animate() past the test of
\* isRunning.
HostBecomes(h, click, steps) ==
    \E r \in {h} :
        /\ Becomes(r.w)
        /\ app' = r.a
        /\ budget' = [budget EXCEPT !.ops = IF click THEN @ - 1 ELSE @,
                                    !.steps = IF steps THEN @ - 1 ELSE @]

\* The first click anywhere on the page (the 'once' listener of
\* DryerApp.init): audio.initialize(), then assignNotesToSurfaces.
InitializeAudio ==
    /\ budget.ops > 0
    /\ ~app.isInitialized
    /\ app' = [app EXCEPT !.isInitialized = TRUE]
    /\ surfaceToNote' = assignNotesToSurfaces(physics.surfaces)
    /\ budget' = Spend("ops")
    /\ UNCHANGED << physics, timers, now, impactLog, activeCollisions >>

\* A click on the start button: start() up to its end or, with the audio
\* not initialised, up to 'await this.audio.initialize()'.
StartClick ==
    /\ budget.ops > 0
    /\ budget.steps > 0
    /\ \E called \in {[Host EXCEPT !.a.stopped = FALSE]} :
          IF called.a.isRunning
          THEN HostBecomes(called, TRUE, FALSE)
          ELSE IF ~called.a.isInitialized
          THEN HostBecomes([called EXCEPT !.a.awaiting = @ + 1], TRUE, FALSE)
          ELSE HostBecomes(startLoop(called, now), TRUE, TRUE)
    /\ UNCHANGED << now, surfaceToNote >>

\* audio.initialize() has finished and a suspended start() goes on:
\* assignNotesToSurfaces, isRunning = true, lastTime, animate().
StartResume ==
    /\ app.awaiting > 0
    /\ budget.steps > 0
    /\ HostBecomes(startLoop([Host EXCEPT !.a.awaiting = @ - 1,
                                          !.a.isInitialized = TRUE], now),
                   FALSE, TRUE)
    /\ surfaceToNote' = assignNotesToSurfaces(physics.surfaces)
    /\ UNCHANGED now

\* A click on the stop button: stop().
StopClick ==
    /\ budget.ops > 0
    /\ \E called \in {[Host EXCEPT !.a.stopped = TRUE]} :
          IF ~called.a.isRunning
          THEN HostBecomes(called, TRUE, FALSE)
          ELSE HostBecomes(stop(called), TRUE, FALSE)
    /\ UNCHANGED << now, surfaceToNote >>

\* The browser runs a callback of requestAnimationFrame: animate().
FrameFire ==
    /\ app.frames > 0
    /\ app.isRunning => budget.steps > 0
    /\ HostBecomes(animate([Host EXCEPT !.a.frames = @ - 1], now),
                   FALSE, app.isRunning)
    /\ UNCHANGED << now, surfaceToNote >>

\* dryerDebug.fixSegmentOffset(offset)
FixSegmentOffset(offsets) ==
    /\ budget.ops > 0
    /\ \E offset \in offsets : physics' = fixSegmentOffset(physics, offset)
    /\ budget' = Spend("ops")
    /\ UNCHANGED << timers, now, impactLog, activeCollisions, surfaceToNote, app >>

\* Time passes.
Tick(ds) ==
    \E d \in ds :
        /\ now + d <= MaxNow
        /\ now' = now + d
        /\ UNCHANGED << physics, timers, impactLog, activeCollisions,
                        surfaceToNote, app, budget >>

\* The event loop runs the oldest cooldown callback once its 50 ms are over:
\* no earlier, and only between two other tasks.
TimerFire ==
    /\ timers # << >>
    /\ Head(timers).due <= now
    /\ physics' = cooldownExpired(physics, Head(timers).id)
    /\ timers' = Tail(timers)
    /\ UNCHANGED << now, impactLog, activeCollisions, surfaceToNote, app,
                    budget >>

\* physics.onCollision(callback), for one of the given callbacks.
OnCollision(callbacks) ==
    /\ budget.ops > 0
    /\ \E callback \in callbacks : physics' = onCollision(physics, callback)
    /\ budget' = Spend("ops")
    /\ UNCHANGED << timers, now, impactLog, activeCollisions, surfaceToNote, app >>

\* dryerDebug.coriolis()
ToggleCoriolis ==
    /\ budget.ops > 0
    /\ physics' = toggleCoriolis(physics)
    /\ budget' = Spend("ops")
    /\ UNCHANGED << timers, now, impactLog, activeCollisions, surfaceToNote, app >>

\* dryerDebug.centrifugal()
ToggleCentrifugal ==
    /\ budget.ops > 0
    /\ physics' = toggleCentrifugal(physics)
    /\ budget' = Spend("ops")
    /\ UNCHANGED << timers, now, impactLog, activeCollisions, surfaceToNote, app >>

\* physics.setLintTrap(enabled)
SetLintTrap ==
    /\ budget.ops > 0
    /\ \E enabled \in BOOLEAN :
          /\ enabled # physics.lintTrapEnabled
          /\ physics' = setLintTrap(physics, enabled)
    /\ budget' = Spend("ops")
    /\ UNCHANGED << timers, now, impactLog, activeCollisions, surfaceToNote, app >>

\* ------------------------------------------------------------------------
\* Specifications
\* ------------------------------------------------------------------------

\* The knob values DryerUI starts with (initKnobs).
KnobInitial == [rpm |-> 18, drumSize |-> 60, vanes |-> 4, vaneHeight |-> 30]

\* The engine once DryerApp.init has run: the listener is registered, then
\* ui.onParameterChange() passes the knob values k.
AppPhysics(k) ==
    setParameters(onCollision(Constructed, "app"),
                  k.rpm, k.drumSize, k.vanes, k.vaneHeight)

EmptyMap == [id \in {} |-> 0]

\* new DryerApp() and new DryerAudio(): nothing runs, no callback is pending.
\* frames counts the callbacks requestAnimationFrame holds (the one named by
\* animationFrameId among them), awaiting the calls of start() suspended at
\* 'await this.audio.initialize()'; stopped and frame keep what was done
\* last: stop() was called and start() has not been called since, and the
\* frame delta (ms) and the dt of each step() of the last run of animate().
\* knobs is ui.knobs, and handed the parameters that the last pointer event
\* has made ui.onParameterChange pass to setParameters, call by call.
AppConstructed ==
    [isRunning |-> FALSE,
     animationFrameId |-> Null,
     lastTime |-> 0,
     isInitialized |-> FALSE,
     frames |-> 0,
     awaiting |-> 0,
     stopped |-> FALSE,
     frame |-> [delta |-> 0, dts |-> << >>],
     knobs |-> initKnobs,
     handed |-> << >>]

\* What the model may still do: configuration calls, direct impacts, steps,
\* steps of no duration.
Budget(ops, impacts, steps, idle) ==
    [ops |-> ops, impacts |-> impacts, steps |-> steps, idle |-> idle]

\* The state with engine p and nothing else having happened.
Fresh(p, b) ==
    /\ physics = p
    /\ timers = << >>
    /\ now = 0
    /\ impactLog = << >>
    /\ activeCollisions = EmptyMap
    /\ surfaceToNote = assignNotesToSurfaces(p.surfaces)
    /\ app = [AppConstructed EXCEPT !.knobs = knobsAt(p)]
    /\ budget = b

\* The state once DryerApp.init has run with knob values k.
AppInit(k, b) == Fresh(AppPhysics(k), b)

\* --- Spec: the filters of triggerCollision (lint trap, debounce slot) on a
\* --- drum with one vane.

MaxImpacts == 3
MaxToggles == 1
ImpactSpeeds == {100, 400}     \* mm/s: below and above the lint threshold
TickChoices == {25, 49}        \* ms

OneVane == [KnobInitial EXCEPT !.vanes = 1]

Init ==
    AppInit(OneVane,
            Budget(MaxToggles, MaxImpacts, 0, 0))

\* The impacts are on the wall and on the leading face of the vane.
Next ==
    \/ TriggerCollision(1..2, ImpactSpeeds)
    \/ Tick(TickChoices)
    \/ TimerFire
    \/ SetLintTrap

Spec == Init /\ [][Next]_vars

\* --- SpecDebounce: the debounce alone (lint trap off), longer runs.

MaxDebounceImpacts == 4

InitDebounce ==
    AppInit(OneVane,
            Budget(0, MaxDebounceImpacts, 0, 0))

NextDebounce ==
    \/ TriggerCollision(1..3, {400})
    \/ Tick(TickChoices)
    \/ TimerFire

SpecDebounce == InitDebounce /\ [][NextDebounce]_vars

\* --- Properties of the event filters ---

Emitted(e) == e.notified # << >>

LintFiltered(e) == e.lint /\ e.velocity < LintTrapThreshold

\* C2 -- Debounce (suppression): two impacts on the same surface id less
\* than 50 ms apart produce one emitted event only.  Taken in its plainest
\* case: the two impacts follow each other with no impact at all in between,
\* and the first one is emitted.
C2_Suppression ==
    \A i \in DOMAIN impactLog :
        /\ i + 1 \in DOMAIN impactLog
        /\ impactLog[i].id = impactLog[i + 1].id
        /\ impactLog[i + 1].time - impactLog[i].time < DebounceMs
        /\ Emitted(impactLog[i])
        => ~Emitted(impactLog[i + 1])

\* C3 -- Debounce (release): two unfiltered impacts on the same surface id
\* 50 ms or more apart, the first of them emitted, are both emitted: the
\* cooldown of the first has expired when the second is processed.
C3_Release ==
    \A i \in DOMAIN impactLog :
        /\ i + 1 \in DOMAIN impactLog
        /\ impactLog[i].id = impactLog[i + 1].id
        /\ impactLog[i + 1].time - impactLog[i].time >= DebounceMs
        /\ Emitted(impactLog[i])
        /\ ~LintFiltered(impactLog[i + 1])
        => Emitted(impactLog[i + 1])

\* C4 -- Single-slot debounce: an unfiltered impact on a surface id other
\* than the one held in the debounce slot is emitted (each listener is
\* notified once), schedules its cooldown and leaves its own id in the slot,
\* whatever cooldowns are pending.
C4_SingleSlot ==
    \A i \in DOMAIN impactLog :
        LET e == impactLog[i]
        IN  ~LintFiltered(e) /\ e.slotBefore # e.id
            => /\ e.notified = << "app" >>
               /\ e.slotAfter = e.id
               /\ e.scheduled = 1

\* An impact emitted inside the cooldown window of another surface, which
\* held the slot, and also inside an older cooldown of its own surface.
C4_Witness ==
    \E i \in DOMAIN impactLog :
        LET e == impactLog[i]
        IN  /\ e.slotBefore \notin {Null, e.id}
            /\ e.slotBefore \in e.pendingBefore
            /\ e.id \in e.pendingBefore
            /\ Emitted(e)
            /\ physics.lastCollisionSurface = e.id
            /\ \E j \in DOMAIN impactLog :
                  /\ j < i
                  /\ impactLog[j].id = e.slotBefore
                  /\ Emitted(impactLog[j])
                  /\ e.time - impactLog[j].time < DebounceMs

\* C5 -- Lint trap: with the filter enabled an impact slower than
\* lintTrapThreshold notifies no listener, leaves the debounce slot as it
\* was and schedules no cooldown; with the filter disabled an impact, slow
\* ones included, that is not debounced produces exactly one event.
C5_LintTrap ==
    \A i \in DOMAIN impactLog :
        LET e == impactLog[i]
        IN  /\ LintFiltered(e)
               => /\ e.notified = << >>
                  /\ e.slotAfter = e.slotBefore
                  /\ e.scheduled = 0
            /\ ~e.lint /\ e.slotBefore # e.id
               => e.notified = << "app" >>

\* A slow impact discarded while another surface held the slot, and the
\* same slow impact emitted with the filter off.
C5_Witness ==
    \E i, j \in DOMAIN impactLog :
        /\ LintFiltered(impactLog[i])
        /\ impactLog[i].slotBefore \notin {Null, impactLog[i].id}
        /\ impactLog[i].slotAfter = impactLog[i].slotBefore
        /\ ~impactLog[j].lint
        /\ impactLog[j].id = impactLog[i].id
        /\ impactLog[j].velocity = impactLog[i].velocity
        /\ Emitted(impactLog[j])

\* --- SpecConfig: reconfiguration while the app runs, all of it inside one
\* --- cooldown window (the clock stands still, no cooldown expires).

MaxConfigOps == 2
MaxConfigImpacts == 1
MaxConfigSteps == 1
SubstepMicros == 8250          \* 0.033 s / 4 substeps, in microseconds

\* Arguments of a direct call of setParameters: any integers.
AnyParameters ==
    {[rpm |-> 18, drumSize |-> 60, vanes |-> v, vaneHeight |-> 30] :
        v \in {-1, 0, 6}}
    \cup {[rpm |-> 18, drumSize |-> 0, vanes |-> 4, vaneHeight |-> 30]}

\* Knob values inside the ranges of DryerUI.knobConfigs.
KnobParameters ==
    {[rpm |-> 18, drumSize |-> 60, vanes |-> v, vaneHeight |-> 30] : v \in {4, 6}}

\* The first surface, and the last one of a set of 4 and of 6 vanes.
ImpactPositions == {1, 12, 18}

InitConfig ==
    AppInit(KnobInitial,
            Budget(MaxConfigOps, MaxConfigImpacts, MaxConfigSteps, 0))

NextConfig ==
    \/ SetParameters(AnyParameters)
    \/ OnParameterChange(KnobParameters)
    \/ TriggerCollision(ImpactPositions, {400})
    \/ Step({SubstepMicros})

SpecConfig == InitConfig /\ [][NextConfig]_vars

\* A call of setParameters has just returned (directly or from the knobs).
Reconfigured == budget'.ops < budget.ops

\* step() runs.
StepRuns == budget'.steps < budget.steps \/ budget'.idle < budget.idle

\* The surfaces of type t and index i.
Of(surfaces, t, i) ==
    {k \in DOMAIN surfaces : surfaces[k].type = t /\ surfaces[k].index = i}

\* One drum, one leading and one trailing surface for each index below n,
\* nothing else, and no id twice.
OneTriplePerIndex(surfaces, n) ==
    /\ \A k \in DOMAIN surfaces : surfaces[k].index \in 0..(n - 1)
    /\ \A i \in 0..(n - 1) :
          \A t \in {"drum", "vane_leading", "vane_trailing"} :
              Cardinality(Of(surfaces, t, i)) = 1
    /\ \A j, k \in DOMAIN surfaces : surfaces[j].id = surfaces[k].id => j = k

\* C6 -- Surface set shape: after construction and after every call of
\* setParameters, surfaces.length = 3 * vaneCount, each index below
\* vaneCount has exactly one drum, one leading and one trailing surface, and
\* the ids are pairwise distinct.
C6_SurfaceShape ==
    /\ Len(physics.surfaces) = 3 * physics.vaneCount
    /\ OneTriplePerIndex(physics.surfaces, physics.vaneCount)

C9_ValidAtStep ==
    [][StepRuns => physics.vaneCount >= 1 /\ physics.drumRadius > 0]_vars

\* --- SpecPhysics: the app's engine stepped at the clamped frame rate, with
\* --- knob changes and the balloon preset along the way.

MaxPhysicsOps == 2
MaxSteps == 35
MaxIdle == 1
Tolerance == 2                 \* mm, above the rounding of this model

\* The smallest drum with the tallest vanes the knobs allow.
PhysicsKnobs ==
    {[rpm |-> 18, drumSize |-> 40, vanes |-> 4, vaneHeight |-> 50]}

InitPhysics ==
    AppInit(KnobInitial, Budget(MaxPhysicsOps, 0, MaxSteps, MaxIdle))

NextPhysics ==
    \/ OnParameterChange(PhysicsKnobs)
    \/ SetBalloonBall
    \/ Step({0, SubstepMicros})

SpecPhysics == InitPhysics /\ [][NextPhysics]_vars

\* distance(ball centre, drum axis) + ball.radius - drumRadius, in mm.
Excess(p) == Sqrt(p.ball.x * p.ball.x + p.ball.y * p.ball.y) + p.ball.radius
             - p.drumRadius

\* C1 -- Containment: once step(dt) has run handleCollisions (the wall test,
\* then the vane tests), distance(ball centre, drum axis) + ball.radius is at
\* most drumRadius, up to the tolerance; a vane correction after the wall
\* correction does not leave the ball in the wall.  (Where the position is
\* NaN there is no distance to speak of: that is C10.)
C1_Containment ==
    [][StepRuns => physics'.ball.nan \/ Excess(physics') <= Tolerance]_vars

\* C10 -- Division-by-zero guards: no step from a valid state leaves the
\* ball position or velocity undefined (NaN).
C10_NoNaN == ~physics.ball.nan

\* --- SpecSegment: one step into the wall, from every direction, for every
\* --- vane count and segment offset.

MaxVanes == 7
MaxOffset == 8
MaxOffsetCalls == 1
MaxSegmentSteps == 1
SegmentAngles == 24

\* The ball next to the wall in direction k of SegmentAngles, flying
\* outwards at 1 m/s.
Placed(p, k) ==
    LET theta == RoundDiv(k * TwoPi, SegmentAngles)
        d == p.drumRadius - p.ball.radius - 2
    IN  [p EXCEPT !.ball.x = RoundDiv(d * Cos(theta), TrigScale),
                  !.ball.y = RoundDiv(d * Sin(theta), TrigScale),
                  !.ball.vx = Cos(theta),
                  !.ball.vy = Sin(theta)]

InitSegment ==
    \E v \in 1..MaxVanes, k \in 0..(SegmentAngles - 1) :
        Fresh(Placed(AppPhysics([KnobInitial EXCEPT !.vanes = v]), k),
              Budget(MaxOffsetCalls, 0, MaxSegmentSteps, 0))

NextSegment ==
    \/ FixSegmentOffset((-MaxOffset)..MaxOffset)
    \/ Step({SubstepMicros})

SpecSegment == InitSegment /\ [][NextSegment]_vars

\* floor(theta / (2 pi / vaneCount)) for the ball position of log entry e,
\* theta in [0, 2 pi).
Bin(e) ==
    LET a == Atan2(e.y, e.x)
        theta == IF a < 0 THEN a + TwoPi ELSE a
    IN  (theta * e.vaneCount) \div TwoPi

\* The wall impacts this step has passed to triggerCollision.
NewDrumImpacts ==
    {k \in DOMAIN impactLog' :
        impactLog'[k].type = "drum" /\ impactLog'[k].stepsLeft = budget.steps}

\* C7 -- Segment classification: whatever vaneCount >= 1, segment offset
\* (negative ones included) and ball angle theta, a step that finds the ball
\* moving into the wall passes exactly one drum surface to triggerCollision:
\* the one whose index is (floor(theta / (2 pi / vaneCount)) + offset) mod
\* vaneCount, which lies in [0, vaneCount) and is a record of the set.
C7_Segment ==
    [][/\ budget'.steps < budget.steps
       /\ physics.vaneCount >= 1
       /\ movingIntoWall(integrate(physics, SubstepMicros))
       => /\ Cardinality(NewDrumImpacts) = 1
          /\ \A k \in NewDrumImpacts :
                LET e == impactLog'[k]
                IN  /\ e.index = (Bin(e) + e.segmentIndexOffset) % e.vaneCount
                    /\ e.index \in 0..(e.vaneCount - 1)
                    /\ Cardinality(Of(physics.surfaces, "drum", e.index)) = 1
                    /\ \A j \in Of(physics.surfaces, "drum", e.index) :
                          physics.surfaces[j].id = e.id]_vars

\* A wall impact classified with a negative offset that takes the bin below
\* zero, by more than one turn of the drum.
C7_Witness ==
    \E k \in DOMAIN impactLog :
        LET e == impactLog[k]
        IN  /\ e.type = "drum"
            /\ e.vaneCount >= 3
            /\ Bin(e) + e.segmentIndexOffset < -e.vaneCount
            /\ e.index = (Bin(e) + e.segmentIndexOffset) % e.vaneCount
            /\ e.index # Bin(e)

\* --- SpecCentre: Scenario C, one step with the ball at the drum axis, for
\* --- the knob values at the ends of their ranges.

MaxCentreOps == 1
MaxCentreSteps == 1
MaxCentreIdle == 1

\* Knob values: the ends of each range of DryerUI.knobConfigs.
CentreKnobs ==
    {[rpm |-> r, drumSize |-> d, vanes |-> v, vaneHeight |-> h] :
        r \in {0, 18, 35}, d \in {40, 80}, v \in {1, 4, 7}, h \in {10, 50}}

\* Velocities of the ball as it is at the axis, mm/s: at rest, and crossing.
CentreVelocities == {<< 0, 0 >>, << 300, -400 >>}

\* The ball at (0, 0) with velocity v.
Centred(p, v) ==
    [p EXCEPT !.ball.x = 0, !.ball.y = 0, !.ball.vx = v[1], !.ball.vy = v[2]]

InitCentre ==
    \E k \in CentreKnobs, v \in CentreVelocities :
        Fresh(Centred(AppPhysics(k), v),
              Budget(MaxCentreOps, 0, MaxCentreSteps, MaxCentreIdle))

NextCentre ==
    \/ ToggleCoriolis
    \/ ToggleCentrifugal
    \/ Step({0, SubstepMicros})

SpecCentre == InitCentre /\ [][NextCentre]_vars

AtCentre(p) == ~p.ball.nan /\ p.ball.x = 0 /\ p.ball.y = 0

\* C11 -- Scenario C: a step that finds the ball exactly at the centre
\* (0, 0) with the centrifugal and the Coriolis force enabled leaves no
\* undefined value (the position is not NaN), and the centrifugal
\* acceleration of that step is (0, 0): the step ends as the same step with
\* the centrifugal force disabled does.
C11_Centre ==
    [][/\ StepRuns
       /\ AtCentre(physics)
       /\ physics.enableCentrifugal
       /\ physics.enableCoriolis
       => /\ ~physics'.ball.nan
          /\ centrifugal(physics) = [x |-> 0, y |-> 0, nan |-> FALSE]
          /\ \E dt \in {0, SubstepMicros} :
                physics'.ball =
                    step([World EXCEPT !.p.enableCentrifugal = FALSE], dt).p.ball]_vars

\* One step of 8.25 ms has run from the centre in a turning drum, both
\* forces enabled and the ball crossing the axis at 0.5 m/s: it has left
\* the centre and its position is defined.
C11_Witness ==
    /\ budget = Budget(MaxCentreOps, 0, MaxCentreSteps - 1, MaxCentreIdle)
    /\ physics.rpm > 0
    /\ physics.enableCentrifugal
    /\ physics.enableCoriolis
    /\ ~physics.ball.nan
    /\ ~AtCentre(physics)
    /\ physics.ball.vx # 0

\* --- SpecImpact: one step into the wall or into a vane face, at an angle,
\* --- for restitutions from 0 to 1.

MaxImpactSteps == 1
ImpactAngles == 8
SpeedTolerance == 6            \* mm/s: unit vectors rounded to thousandths,
                               \* at speeds of 1 m/s and more

\* Restitutions, percent: none, the balloon's, the tennis ball's, all.
Restitutions == {0, 10, 75, 100}

\* Speed along the surface, mm/s, either way.
Tangentials == {-500, 500}

\* The ball next to the wall between two vanes, in direction (2k + 1) of
\* 2 * ImpactAngles, flying outwards at 1 m/s and along the wall at s.
AtWall(p, k, s) ==
    LET theta == RoundDiv((2 * k + 1) * TwoPi, 2 * ImpactAngles)
        d == p.drumRadius - p.ball.radius - 2
    IN  [p EXCEPT !.ball.x = RoundDiv(d * Cos(theta), TrigScale),
                  !.ball.y = RoundDiv(d * Sin(theta), TrigScale),
                  !.ball.vx = Cos(theta) - RoundDiv(s * Sin(theta), TrigScale),
                  !.ball.vy = Sin(theta) + RoundDiv(s * Cos(theta), TrigScale)]

\* The ball next to vane i, half way along it, on the side given by the
\* sign of side, flying into the vane at 0.8 m/s and along it at s.
AtVane(p, i, side, s) ==
    LET theta == RoundDiv(i * TwoPi, p.vaneCount)
        along == RoundDiv(p.drumRadius * (200 - p.vaneHeight), 200)
        off == side * (p.ball.radius + 2)
        into == -side * 800
    IN  [p EXCEPT !.ball.x = RoundDiv(along * Cos(theta) - off * Sin(theta), TrigScale),
                  !.ball.y = RoundDiv(along * Sin(theta) + off * Cos(theta), TrigScale),
                  !.ball.vx = RoundDiv(s * Cos(theta) - into * Sin(theta), TrigScale),
                  !.ball.vy = RoundDiv(s * Sin(theta) + into * Cos(theta), TrigScale)]

\* The app's engine with restitution r.
Bouncing(r) ==
    setBallProperties(AppPhysics(KnobInitial), Undefined, Undefined, r, Undefined)

InitImpact ==
    \E r \in Restitutions, s \in Tangentials :
        \/ \E k \in 0..(ImpactAngles - 1) :
              Fresh(AtWall(Bouncing(r), k, s), Budget(0, 0, MaxImpactSteps, 0))
        \/ \E i \in 0..(KnobInitial.vanes - 1), side \in {-1, 1} :
              Fresh(AtVane(Bouncing(r), i, side, s), Budget(0, 0, MaxImpactSteps, 0))

NextImpact == Step({SubstepMicros})

SpecImpact == InitImpact /\ [][NextImpact]_vars

\* The impacts this step has passed to triggerCollision.
NewImpacts == {k \in DOMAIN impactLog' : impactLog'[k].stepsLeft = budget.steps}

\* u . v for a unit vector u in thousandths.
Dot(ux, uy, vx, vy) == RoundDiv(ux * vx + uy * vy, TrigScale)

\* The unit normal of the surface of impact e for a ball at (x, y): the
\* direction of the drum axis for the wall, the perpendicular of the vane's
\* own direction for a vane.
NormalOf(e, x, y) ==
    IF e.type = "drum"
    THEN LET d == Sqrt(x * x + y * y)
         IN  << RoundDiv(-x * TrigScale, d), RoundDiv(-y * TrigScale, d) >>
    ELSE LET theta == RoundDiv(e.index * TwoPi, e.vaneCount)
         IN  << -Sin(theta), Cos(theta) >>

\* C12 -- Restitution: a step with one active impact (vn < 0), on the wall
\* or on a vane, with restitution r leaves the velocity component along the
\* contact normal at -r * vn (0 for r = 0) and the component along the
\* surface as the integration left it, up to the rounding of the
\* arithmetic; the speed passed on is |vn|.
C12_Restitution ==
    [][StepRuns /\ Cardinality(NewImpacts) = 1
       => \A k \in NewImpacts :
             LET e == impactLog'[k]
                 b == integrate(physics, SubstepMicros).ball
                 a == physics'.ball
                 n == NormalOf(e, b.x, b.y)
                 vn == Dot(n[1], n[2], b.vx, b.vy)
             IN  /\ Abs(Dot(n[1], n[2], a.vx, a.vy)
                        + RoundDiv(a.restitution * vn, 100)) <= SpeedTolerance
                 /\ Abs(Dot(-n[2], n[1], a.vx, a.vy)
                        - Dot(-n[2], n[1], b.vx, b.vy)) <= SpeedTolerance
                 /\ Abs(e.velocity - Abs(vn)) <= SpeedTolerance]_vars

\* An impact at 0.8 m/s on a face of vane 0 (which lies along the x axis)
\* with restitution 0: the ball keeps its 0.5 m/s along the vane and has no
\* velocity across it.
C12_Witness ==
    /\ Len(impactLog) = 1
    /\ impactLog[1].type \in {"vane_leading", "vane_trailing"}
    /\ impactLog[1].index = 0
    /\ impactLog[1].velocity >= 700
    /\ physics.ball.restitution = 0
    /\ Abs(physics.ball.vy) <= SpeedTolerance
    /\ Abs(physics.ball.vx) >= 400

\* --- SpecBall: the ball's properties and presets and reset(), between
\* --- steps and knob changes.

MaxBallOps == 2
MaxBallSteps == 1

\* The arguments of setBallProperties when they are given: a ping-pong
\* ball's radius, a baseball's mass, no bounce, a smooth sphere's drag.
BallArguments ==
    [radius |-> 20, mass |-> 145, restitution |-> 0, dragCoeff |-> 47]

InitBall == AppInit(KnobInitial, Budget(MaxBallOps, 0, MaxBallSteps, 0))

NextBall ==
    \/ SetBallProperties(BallArguments)
    \/ SetTennisBall
    \/ SelectTennis
    \/ DebugTennisBall
    \/ SetBalloonBall
    \/ Reset
    \/ OnParameterChange(PhysicsKnobs)
    \/ Step({SubstepMicros})

SpecBall == InitBall /\ [][NextBall]_vars

\* The value of a field after a call that was given arg for it.
Updated(arg, old) == IF arg # Undefined THEN arg ELSE old

\* All of the engine but the ball is as it was.
SameButBall == \A f \in DOMAIN physics \ {"ball"} : physics'[f] = physics[f]

\* C13 -- setBallProperties is a partial update: each of radius, mass,
\* restitution and dragCoeff takes the value of its argument when that is
\* supplied and keeps its own when it is omitted; the ball position and
\* velocity, the drum configuration, the toggles, the surface set and all
\* other state stay as they were.
C13_PartialUpdate ==
    [][\A radius \in {Undefined, BallArguments.radius},
          mass \in {Undefined, BallArguments.mass},
          restitution \in {Undefined, BallArguments.restitution},
          dragCoeff \in {Undefined, BallArguments.dragCoeff} :
          SetBallPropertiesWith(radius, mass, restitution, dragCoeff)
          => /\ physics'.ball.radius = Updated(radius, physics.ball.radius)
             /\ physics'.ball.mass = Updated(mass, physics.ball.mass)
             /\ physics'.ball.restitution = Updated(restitution, physics.ball.restitution)
             /\ physics'.ball.dragCoeff = Updated(dragCoeff, physics.ball.dragCoeff)
             /\ \A f \in {"x", "y", "vx", "vy", "nan"} :
                   physics'.ball[f] = physics.ball[f]
             /\ SameButBall
             /\ UNCHANGED << timers, impactLog, activeCollisions, surfaceToNote, app >>]_vars

\* After a step that moved the ball, setBallProperties(0.02, undefined, 0)
\* was called: radius and restitution are new, mass and dragCoeff are the
\* tennis ball's, the ball is still where the step left it.
C13_Witness ==
    /\ budget = Budget(MaxBallOps - 1, 0, MaxBallSteps - 1, 0)
    /\ physics.ball.radius = BallArguments.radius
    /\ physics.ball.mass = 58
    /\ physics.ball.restitution = BallArguments.restitution
    /\ physics.ball.dragCoeff = 55
    /\ physics.ball.vy # 0

\* The four properties of a tennis ball.
TennisBall(ball) ==
    /\ ball.radius = 35
    /\ ball.mass = 58
    /\ ball.restitution = 75
    /\ ball.dragCoeff = 55

\* C14 -- Named ball presets are atomic bundles: once the tennis-ball
\* preset has been selected, by setTennisBall / dryerDebug.tennis, by the
\* ball type selector or by dryerDebug.tennisBall, radius, mass,
\* restitution and dragCoeff are 0.035, 0.058, 0.75 and 0.55, whatever they
\* were before.
C14_TennisPreset ==
    [][SetTennisBall \/ SelectTennis \/ DebugTennisBall
       => TennisBall(physics'.ball)]_vars

MaxListenerOps == 2
MaxListenerImpacts == 1
MaxListenerSteps == 1

\* Callbacks registered besides the one of DryerApp.init.
Listeners == {"probe", "meter"}

InitListeners ==
    Fresh(AtWall(AppPhysics(OneVane), 0, 500),
          Budget(MaxListenerOps, MaxListenerImpacts, MaxListenerSteps, 0))

NextListeners ==
    \/ OnCollision(Listeners)
    \/ SetLintTrap
    \/ TriggerCollision(1..3, ImpactSpeeds)
    \/ Step({SubstepMicros})

SpecListeners == InitListeners /\ [][NextListeners]_vars

\* C16 -- Listener dispatch: an impact that is neither lint-filtered nor
\* debounced invokes every listener registered when it happens, once for
\* each registration and in registration order, within the call (of step()
\* or of triggerCollision) that found it, and the listener of DryerApp has
\* highlighted the struck surface when the call returns; a filtered or
\* debounced impact invokes no listener.
C16_Dispatch ==
    /\ \A i \in DOMAIN impactLog :
          LET e == impactLog[i]
          IN  e.notified = IF LintFiltered(e) \/ e.slotBefore = e.id
                           THEN << >> ELSE e.listeners
    /\ impactLog # << >> /\ Emitted(impactLog[Len(impactLog)])
       => /\ impactLog[Len(impactLog)].id \in DOMAIN activeCollisions
          /\ activeCollisions[impactLog[Len(impactLog)].id] = HighlightFull

\* A wall impact found by step() has invoked three listeners in the order
\* of their registration, and a later impact on the same surface, inside
\* the cooldown, has invoked none of them.
C16_Witness ==
    \E i, j \in DOMAIN impactLog :
        /\ i < j
        /\ impactLog[i].type = "drum"
        /\ impactLog[i].stepsLeft = MaxListenerSteps
        /\ Len(impactLog[i].listeners) = 3
        /\ impactLog[i].listeners[1] = "app"
        /\ impactLog[i].listeners[2] # impactLog[i].listeners[3]
        /\ impactLog[i].notified = impactLog[i].listeners
        /\ impactLog[j].id = impactLog[i].id
        /\ Len(impactLog[j].listeners) = 3
        /\ impactLog[j].notified = << >>

\* --- SpecHost: the start and stop buttons and the animation loop, with
\* --- the clock running.

MaxHostOps == 3
MaxFrames == 3

\* Times between two tasks, ms: under and over the clamp of 33 ms.
HostTicks == {16, 49}

InitHost == AppInit(KnobInitial, Budget(MaxHostOps, 0, MaxFrames, 0))

NextHost ==
    \/ InitializeAudio
    \/ StartClick
    \/ StartResume
    \/ StopClick
    \/ FrameFire
    \/ Tick(HostTicks)

SpecHost == InitHost /\ [][NextHost]_vars

\* C17 -- Host loop: a run of animate() clamps the frame delta to at most
\* 0.033 s and calls step() exactly 4 times, each with dt = clampedDelta / 4,
\* so no step gets a dt above 0.033 / 4 s whatever the gap between frames.
C17_HostLoop ==
    LET f == app.frame
    IN  f.dts # << >>
        => /\ Len(f.dts) = 4
           /\ \A i \in DOMAIN f.dts :
                 /\ 4 * f.dts[i] = Min(f.delta * 1000, 33000)
                 /\ f.dts[i] <= SubstepMicros

\* A frame came 49 ms after the one before it and ran four steps of
\* 8.25 ms.
C17_Witness ==
    /\ app.frame.delta > 33
    /\ app.frame.dts = << SubstepMicros, SubstepMicros, SubstepMicros, SubstepMicros >>
    /\ app.isRunning

\* The ball where reset() puts it, or where the constructor has put it, at
\* rest, in a drum at angle 0.
InitialPlacement(p) ==
    /\ ~p.ball.nan
    /\ p.ball.x \in {reset(p).ball.x, Constructed.ball.x}
    /\ p.ball.y = 0
    /\ p.ball.vx = 0
    /\ p.ball.vy = 0
    /\ p.drumAngle = 0

\* C18 -- Stop: from a call of stop() until the next call of start() no
\* step() runs and the ball is at its initial placement, whatever the
\* order of the clicks, a stop while start() awaits the audio included.
C18_Stop ==
    [][app'.stopped
       => /\ app.stopped => budget'.steps = budget.steps
          /\ InitialPlacement(physics')]_vars

\* --- SpecScenarioA: a ball dropped in a drum at rest, stepped for as long
\* --- as the bound allows.

MaxScenarioSteps == 120

\* What Scenario A leaves open: the vane height (knob values), the ball
\* (the two presets) and the gravity (Earth, Moon).
ScenarioVaneHeights == {10, 30, 50}

\* A new engine in the app, the knobs at rpm 0, drum 80 cm, 4 vanes; the
\* Coriolis force, the centrifugal force and the air drag toggled off.  The
\* ball is where the constructor has put it: (0.24, 0), at rest.
ScenarioA(vaneHeight) ==
    toggleDrag(toggleCentrifugal(toggleCoriolis(
        AppPhysics([rpm |-> 0, drumSize |-> 80, vanes |-> 4,
                    vaneHeight |-> vaneHeight]))))

InitScenarioA ==
    \E h \in ScenarioVaneHeights, balloon \in BOOLEAN, moon \in BOOLEAN :
        LET p == setMoonGravity(ScenarioA(h), moon)
        IN  Fresh(IF balloon THEN setBalloonBall(p) ELSE p,
                  Budget(0, 0, MaxScenarioSteps, 0))

NextScenarioA == Step({SubstepMicros})

\* What a call of step() does to the bound on the calls.
Stepped == budget.steps > 0 /\ budget' = Spend("steps")

\* step() is called again and again: as long as a call is left, one comes.
SpecScenarioA ==
    InitScenarioA /\ [][NextScenarioA]_vars /\ WF_budget(Stepped)

\* The sector of the point (x, y) in a drum of four sectors of a quarter
\* turn each, counted from the positive x axis.
QuarterOf(x, y) ==
    IF y >= 0 THEN (IF x > 0 THEN 0 ELSE 1)
    ELSE (IF x < 0 THEN 2 ELSE 3)

\* C19 -- Scenario A: in a drum of radius 0.8 with 4 vanes at rpm 0, the
\* fictitious forces and the drag off, a ball at rest at (0.24, 0) that is
\* stepped again and again does strike something, and the first impact
\* reported is on a surface of type 'drum' whose index is the sector
\* floor(angle / (2 pi / 4)) of the place where the ball strikes the wall.
C19_ScenarioA ==
    /\ <>(impactLog # << >>)
    /\ [][impactLog = << >> /\ impactLog' # << >>
          => LET e == impactLog'[1]
             IN  /\ Len(impactLog') = 1
                 /\ Emitted(e)
                 /\ e.type = "drum"
                 /\ e.index = Bin(e)
                 /\ e.index = QuarterOf(e.x, e.y)
                 /\ e.id = "drum_" \o ToString(e.index)]_vars

\* The ball has fallen for more than 40 steps between vanes half as high
\* as the drum radius and has struck the wall below the axis, right of the
\* middle: sector 3.
C19_Witness ==
    /\ physics.vaneHeight = 50
    /\ Len(impactLog) = 1
    /\ impactLog[1].type = "drum"
    /\ impactLog[1].index = 3
    /\ impactLog[1].x > 0
    /\ impactLog[1].y < 0
    /\ impactLog[1].stepsLeft < MaxScenarioSteps - 40

\* --- SpecNotes: the vane knob turned while impacts reach the listener of
\* --- the app.

MaxNoteOps == 2
MaxNoteImpacts == 2
MaxNoteSteps == 1

\* Knob values: vane counts in the range of the knob, the initial one
\* among them.
NoteKnobs == {[KnobInitial EXCEPT !.vanes = v] : v \in {1, 4, 6}}

\* The first surface, and the last one of a set of 1, 4 and 6 vanes.
NotePositions == {1, 3, 12, 18}

InitNotes ==
    AppInit(KnobInitial, Budget(MaxNoteOps, MaxNoteImpacts, MaxNoteSteps, 0))

NextNotes ==
    \/ OnParameterChange(NoteKnobs)
    \/ InitializeAudio
    \/ TriggerCollision(NotePositions, {400})
    \/ Step({SubstepMicros})

SpecNotes == InitNotes /\ [][NextNotes]_vars

\* The entries of the log that this step has added.
NewlyLogged ==
    {k \in DOMAIN impactLog' :
        \A j \in DOMAIN impactLog : impactLog[j] # impactLog'[k]}

\* The positions, counted from 0, of the surfaces with this id.
PositionsOf(surfaces, id) == {k - 1 : k \in {j \in DOMAIN surfaces : surfaces[j].id = id}}

MaxSeparatingSteps == 1
MaxSeparatingIdle == 1
PositionTolerance == 2         \* mm: unit vectors rounded to thousandths

\* How deep the ball is in the surface, mm.
Depths == {3, 10}

\* Speed out of the surface, mm/s: none, and more than gravity takes back
\* in a step.
Aways == {0, 400}

\* The ball in the wall by depth, between two vanes, in direction
\* (2k + 1) of 2 * ImpactAngles, flying inwards at away and along the wall
\* at s.
InWall(p, k, depth, away, s) ==
    LET theta == RoundDiv((2 * k + 1) * TwoPi, 2 * ImpactAngles)
        d == p.drumRadius - p.ball.radius + depth
    IN  [p EXCEPT !.ball.x = RoundDiv(d * Cos(theta), TrigScale),
                  !.ball.y = RoundDiv(d * Sin(theta), TrigScale),
                  !.ball.vx = RoundDiv(-away * Cos(theta) - s * Sin(theta), TrigScale),
                  !.ball.vy = RoundDiv(-away * Sin(theta) + s * Cos(theta), TrigScale)]

\* The ball in a face of vane i by depth, half way along the vane, on the
\* side given by the sign of side, flying off the vane at away and along
\* it at s.
InVane(p, i, side, depth, away, s) ==
    LET theta == RoundDiv(i * TwoPi, p.vaneCount)
        along == RoundDiv(p.drumRadius * (200 - p.vaneHeight), 200)
        off == side * (p.ball.radius - depth)
        out == side * away
    IN  [p EXCEPT !.ball.x = RoundDiv(along * Cos(theta) - off * Sin(theta), TrigScale),
                  !.ball.y = RoundDiv(along * Sin(theta) + off * Cos(theta), TrigScale),
                  !.ball.vx = RoundDiv(s * Cos(theta) - out * Sin(theta), TrigScale),
                  !.ball.vy = RoundDiv(s * Sin(theta) + out * Cos(theta), TrigScale)]

\* The debounce slot as an emission on the surface at position k has left
\* it (k = 0: no emission yet).
SlotAt(p, k) ==
    IF k = 0 THEN p
    ELSE [p EXCEPT !.lastCollisionSurface = p.surfaces[k].id]

InitSeparating ==
    \E depth \in Depths, away \in Aways, s \in Tangentials, slot \in {0, 1, 2} :
        \/ \E k \in 0..(ImpactAngles - 1) :
              Fresh(InWall(SlotAt(AppPhysics(KnobInitial), slot), k, depth, away, s),
                    Budget(0, 0, MaxSeparatingSteps, MaxSeparatingIdle))
        \/ \E i \in 0..(KnobInitial.vanes - 1), side \in {-1, 1} :
              Fresh(InVane(SlotAt(AppPhysics(KnobInitial), slot), i, side, depth, away, s),
                    Budget(0, 0, MaxSeparatingSteps, MaxSeparatingIdle))

NextSeparating == Step({0, SubstepMicros})

SpecSeparating == InitSeparating /\ [][NextSeparating]_vars

\* The ball of p overlaps the wall, by how much, and its velocity along
\* the normal of the wall (towards the axis).
WallDepth(p) ==
    Sqrt(p.ball.x * p.ball.x + p.ball.y * p.ball.y) + p.ball.radius - p.drumRadius

WallVn(p) ==
    LET n == NormalOf([type |-> "drum"], p.ball.x, p.ball.y)
    IN  Dot(n[1], n[2], p.ball.vx, p.ball.vy)

\* The signed distance of the ball of p from the line of vane i (positive
\* on the side the drum turns to), its place along that line, and whether
\* it overlaps the vane between its ends.
VaneOffset(p, i) ==
    LET theta == RoundDiv(i * TwoPi, p.vaneCount)
    IN  Dot(-Sin(theta), Cos(theta), p.ball.x, p.ball.y)

VaneAlong(p, i) ==
    LET theta == RoundDiv(i * TwoPi, p.vaneCount)
    IN  Dot(Cos(theta), Sin(theta), p.ball.x, p.ball.y)

InVaneFace(p, i) ==
    /\ Abs(VaneOffset(p, i)) < p.ball.radius - PositionTolerance
    /\ VaneOffset(p, i) # 0
    /\ VaneAlong(p, i) > RoundDiv(p.drumRadius * (100 - p.vaneHeight), 100) + PositionTolerance
    /\ VaneAlong(p, i) < p.drumRadius - PositionTolerance

\* The ball of p is nowhere near vane i.
ClearOfVane(p, i) ==
    \/ Abs(VaneOffset(p, i)) > p.ball.radius + PositionTolerance
    \/ VaneAlong(p, i) < RoundDiv(p.drumRadius * (100 - p.vaneHeight), 100) - PositionTolerance

\* The velocity of the ball of p off vane i: along the normal that points
\* from the vane to the ball.
VaneVn(p, i) ==
    LET theta == RoundDiv(i * TwoPi, p.vaneCount)
        side == IF VaneOffset(p, i) > 0 THEN 1 ELSE -1
    IN  side * Dot(-Sin(theta), Cos(theta), p.ball.vx, p.ball.vy)

\* The dt of the step being taken.
DtTaken == IF budget'.idle < budget.idle THEN 0 ELSE SubstepMicros

\* The step leaves the velocity as the integration has left it, reports
\* nothing and leaves the debounce slot and the cooldowns alone.
OnlyMoved(q) ==
    /\ physics'.ball.vx = q.ball.vx
    /\ physics'.ball.vy = q.ball.vy
    /\ ~physics'.ball.nan
    /\ impactLog' = impactLog
    /\ activeCollisions' = activeCollisions
    /\ timers' = timers
    /\ physics'.lastCollisionSurface = physics.lastCollisionSurface

\* C21 -- Separating contact: a step whose wall test or vane test finds the
\* ball overlapping the surface with a normal velocity vn >= 0 moves the
\* ball out of the surface and does nothing else: the velocity stays as
\* integrated, nothing is passed to triggerCollision and the debounce
\* slot keeps its value.
C21_Separating ==
    [][StepRuns
       => LET q == integrate(physics, DtTaken)
              vanes == 0..(q.vaneCount - 1)
          IN  /\ /\ WallDepth(q) > 0
                  /\ WallVn(q) >= 0
                  /\ (\A i \in vanes : ClearOfVane(q, i))
                  => /\ OnlyMoved(q)
                     /\ Abs(WallDepth(physics')) <= PositionTolerance
              /\ \A i \in vanes :
                    /\ InVaneFace(q, i)
                    /\ VaneVn(q, i) >= 0
                    /\ WallDepth(q) <= 0
                    => /\ OnlyMoved(q)
                       /\ Abs(Abs(VaneOffset(physics', i)) - q.ball.radius)
                             <= PositionTolerance
                       /\ (VaneOffset(physics', i) > 0) = (VaneOffset(q, i) > 0)]_vars

\* The ball was 10 mm deep in a face of vane 1 while the slot held an id,
\* leaving the vane at 0.4 m/s: it has been put back at its radius from
\* the vane with that velocity, and nothing was reported.
C21_Witness ==
    /\ budget.steps < MaxSeparatingSteps
    /\ budget.idle = MaxSeparatingIdle
    /\ impactLog = << >>
    /\ physics.lastCollisionSurface # Null
    /\ Abs(Abs(VaneOffset(physics, 1)) - physics.ball.radius) <= PositionTolerance
    /\ InVaneFace([physics EXCEPT !.ball.radius = @ + 2 * PositionTolerance], 1)
    /\ VaneVn(physics, 1) >= 390

\* --- SpecVaneEnd: steps that start with the ball overlapping the inner end
\* --- of a vane from beyond it (the projection parameter t is below 0).

MaxVaneEndSteps == 1
MaxVaneEndIdle == 1

\* How far beyond the inner end the ball centre is, along the vane, and
\* how far to the side of its line, mm: all closer to the end than the
\* radius of the ball.
EndGaps == {5, 20}
EndSides == {-15, 0, 15}

\* Speed towards the end of the vane, mm/s.
EndSpeeds == {0, 400}

\* The ball beyond the inner end of vane i by gap, off the line of the vane
\* by side, flying along the vane towards its end at s.
BeyondVaneEnd(p, i, gap, side, s) ==
    LET theta == RoundDiv(i * TwoPi, p.vaneCount)
        along == RoundDiv(p.drumRadius * (100 - p.vaneHeight), 100) - gap
    IN  [p EXCEPT !.ball.x = RoundDiv(along * Cos(theta) - side * Sin(theta), TrigScale),
                  !.ball.y = RoundDiv(along * Sin(theta) + side * Cos(theta), TrigScale),
                  !.ball.vx = RoundDiv(s * Cos(theta), TrigScale),
                  !.ball.vy = RoundDiv(s * Sin(theta), TrigScale)]

InitVaneEnd ==
    \E i \in 0..(KnobInitial.vanes - 1), gap \in EndGaps, side \in EndSides,
       s \in EndSpeeds :
        Fresh(BeyondVaneEnd(AppPhysics(KnobInitial), i, gap, side, s),
              Budget(0, 0, MaxVaneEndSteps, MaxVaneEndIdle))

NextVaneEnd == Step({0, SubstepMicros})

SpecVaneEnd == InitVaneEnd /\ [][NextVaneEnd]_vars

\* The distance of the ball of p from the inner end of vane i.
InnerEndDistance(p, i) ==
    LET end == vaneInner(p, i)
    IN  Sqrt((p.ball.x - end.x) * (p.ball.x - end.x)
             + (p.ball.y - end.y) * (p.ball.y - end.y))

\* The ball of p overlaps the inner end of vane i from beyond it.
OverlapsInnerEnd(p, i) ==
    /\ ~p.ball.nan
    /\ VaneAlong(p, i)
          < RoundDiv(p.drumRadius * (100 - p.vaneHeight), 100) - PositionTolerance
    /\ InnerEndDistance(p, i) < p.ball.radius - PositionTolerance

\* C22 -- Vane end clamping: the projection parameter t is clamped to
\* [0,1], so a step that finds the ball beyond the inner end of a vane
\* (t < 0) and closer to that end than its radius treats it as a contact
\* with the vane: the ball is moved out to its radius from the end.
C22_EndContact ==
    [][StepRuns
       => LET q == integrate(physics, DtTaken)
          IN  \A i \in 0..(q.vaneCount - 1) :
                 OverlapsInnerEnd(q, i)
                 => InnerEndDistance(physics', i) >= q.ball.radius - PositionTolerance]_vars

\* --- The order of correction and classification in the wall test, under
\* --- SpecSegment.

\* C23 -- Ordering of wall-impact classification: the angular position
\* that picks the drum segment is captured before the positional
\* correction moves the ball, so a step that finds the ball moving into
\* the wall reports the segment that contains the position the
\* integration has left, the uncorrected one.
C23_Uncorrected ==
    [][/\ budget'.steps < budget.steps
       /\ physics.vaneCount >= 1
       /\ movingIntoWall(integrate(physics, SubstepMicros))
       => LET q == integrate(physics, SubstepMicros)
              at == [x |-> q.ball.x, y |-> q.ball.y, vaneCount |-> q.vaneCount]
          IN  \A k \in NewDrumImpacts :
                 impactLog'[k].index
                    = (Bin(at) + q.segmentIndexOffset) % q.vaneCount]_vars

\* --- SpecCorner: one step that starts with the ball in the corner of the
\* --- wall and a vane, flying into both.

MaxCornerSteps == 1

\* How deep the ball is in the wall and in the face of the vane, mm.
CornerDepths == {3, 10}

\* Speed into the wall and into the vane, mm/s: below and above the lint
\* threshold.
CornerSpeeds == {100, 400}

\* The ball in the corner of the wall and vane i, on the side given by the
\* sign of side, depth deep in both, flying into both at s.
InCorner(p, i, side, depth, s) ==
    LET theta == RoundDiv(i * TwoPi, p.vaneCount)
        along == p.drumRadius - p.ball.radius + depth
        off == side * (p.ball.radius - depth)
    IN  [p EXCEPT !.ball.x = RoundDiv(along * Cos(theta) - off * Sin(theta), TrigScale),
                  !.ball.y = RoundDiv(along * Sin(theta) + off * Cos(theta), TrigScale),
                  !.ball.vx = RoundDiv(s * Cos(theta) + side * s * Sin(theta), TrigScale),
                  !.ball.vy = RoundDiv(s * Sin(theta) - side * s * Cos(theta), TrigScale)]

InitCorner ==
    \E i \in 0..(KnobInitial.vanes - 1), side \in {-1, 1}, depth \in CornerDepths,
       s \in CornerSpeeds, slot \in {0, 1, 2}, lint \in BOOLEAN :
        Fresh(InCorner(setLintTrap(SlotAt(AppPhysics(KnobInitial), slot), lint),
                       i, side, depth, s),
              Budget(0, 0, MaxCornerSteps, 0))

NextCorner == Step({SubstepMicros})

SpecCorner == InitCorner /\ [][NextCorner]_vars

\* C24 -- Per-step event uniqueness: one step() runs the wall test once and
\* tests each vane index once, so it passes at most one drum surface and,
\* for each vane index, at most one surface (leading or trailing, never
\* both) to triggerCollision, and no surface id twice.
C24_OncePerTest ==
    [][StepRuns
       => /\ Cardinality({k \in NewImpacts : impactLog'[k].type = "drum"}) <= 1
          /\ \A i \in 0..(physics.vaneCount - 1) :
                Cardinality({k \in NewImpacts :
                               /\ impactLog'[k].type \in {"vane_leading", "vane_trailing"}
                               /\ impactLog'[k].index = i}) <= 1
          /\ \A j, k \in NewImpacts :
                j # k => impactLog'[j].id # impactLog'[k].id]_vars

\* One step has reported the wall and then a face of a vane, both to the
\* listeners.
C24_Witness ==
    /\ budget.steps < MaxCornerSteps
    /\ Len(impactLog) = 2
    /\ impactLog[1].type = "drum"
    /\ impactLog[2].type \in {"vane_leading", "vane_trailing"}
    /\ impactLog[1].stepsLeft = impactLog[2].stepsLeft
    /\ Emitted(impactLog[1])
    /\ Emitted(impactLog[2])

\* --- The cooldown callbacks against the emission that owns the slot, under
\* --- SpecDebounce.

\* A cooldown callback runs and clears the debounce slot.
SlotCleared ==
    /\ timers # << >>
    /\ timers' = Tail(timers)
    /\ physics.lastCollisionSurface # Null
    /\ physics'.lastCollisionSurface = Null

\* C25 -- Cooldown timers do not interfere: the cooldown callback of an
\* earlier emission for a surface never clears the slot that a later
\* emission for that surface has set: whenever a callback clears the slot,
\* 50 ms have passed since every emission for the surface the slot holds,
\* the latest one included.
C25_OwnCooldown ==
    [][SlotCleared
       => \A k \in DOMAIN impactLog :
             /\ Emitted(impactLog[k])
             /\ impactLog[k].id = physics.lastCollisionSurface
             => now >= impactLog[k].time + DebounceMs]_vars

\* --- SpecRelease: slow and fast impacts on two surfaces with the lint trap on, the
\* --- clock running on to the cooldown that is due next and the event loop
\* --- running every callback that is due.

\* Time passes until the oldest pending cooldown is due.
Elapse ==
    /\ timers # << >>
    /\ Head(timers).due > now
    /\ now' = Head(timers).due
    /\ UNCHANGED << physics, timers, impactLog, activeCollisions,
                    surfaceToNote, app, budget >>

MaxReleaseImpacts == 3

\* The time between two tasks, ms.
ReleaseTicks == {25}

\* The lint trap is on: the slow impacts are filtered, the fast ones pass.
InitRelease ==
    Fresh(setLintTrap(AppPhysics(OneVane), TRUE),
          Budget(0, MaxReleaseImpacts, 0, 0))

NextRelease ==
    \/ TriggerCollision(1..2, ImpactSpeeds)
    \/ Tick(ReleaseTicks)
    \/ Elapse
    \/ TimerFire

\* setTimeout: the clock reaches the delay of a pending callback, and the
\* event loop runs a callback that is due.
SpecRelease ==
    /\ InitRelease
    /\ [][NextRelease]_vars
    /\ WF_vars(Elapse)
    /\ WF_vars(TimerFire)

\* The slot holds an id only while a cooldown for that id, scheduled no
\* more than 50 ms ahead, is pending.
SlotHasCooldown ==
    physics.lastCollisionSurface # Null
    => \E k \in DOMAIN timers :
          /\ timers[k].id = physics.lastCollisionSurface
          /\ timers[k].due <= now + DebounceMs

\* An impact that is not emitted schedules nothing and leaves the slot as
\* it was; an unfiltered impact that finds the slot empty is emitted.
QuietWhenFiltered ==
    \A k \in DOMAIN impactLog :
        LET e == impactLog[k]
        IN  /\ ~Emitted(e) => e.scheduled = 0 /\ e.slotAfter = e.slotBefore
            /\ e.slotBefore = Null /\ ~LintFiltered(e) => Emitted(e)

C27_OneLoop == app.frames <= 1

\* --- The filters against the motion, under SpecCorner.

\* The world with the lint trap set to lint and the debounce slot to slot.
Filtered(w, lint, slot) ==
    [w EXCEPT !.p.lintTrapEnabled = lint, !.p.lastCollisionSurface = slot]

\* C28 -- The event filters do not touch the physics: a step leaves the
\* ball (position, velocity) and drumAngle exactly as the same step does
\* from the same state with the lint trap the other way and with any other
\* content of the debounce slot; the filters decide only which events are
\* emitted.
C28_FiltersApart ==
    [][StepRuns
       => \A lint \in BOOLEAN, slot \in Ids(physics.surfaces) \cup {Null} :
             /\ step(Filtered(World, lint, slot), SubstepMicros).p.ball = physics'.ball
             /\ step(Filtered(World, lint, slot), SubstepMicros).p.drumAngle
                   = physics'.drumAngle]_vars

\* One step has bounced the ball off the wall and off a vane; the impact
\* on the wall was suppressed by the slot and the one on the vane was
\* emitted.
C28_Witness ==
    /\ budget.steps < MaxCornerSteps
    /\ Len(impactLog) = 2
    /\ impactLog[1].type = "drum"
    /\ impactLog[1].slotBefore = impactLog[1].id
    /\ ~LintFiltered(impactLog[1])
    /\ ~Emitted(impactLog[1])
    /\ Emitted(impactLog[2])
    /\ WallVn(physics) > 0

\* --- SpecKnobs: the pointer events on the knobs of DryerUI, in the app.

MaxKnobOps == 4

\* clientY of the pointer events, px: 7 px give 3.5 steps, 200 px more
\* steps than the range of any knob.
PointerYs == {0, 7, 200}

\* What the listeners of DryerUI work on, at the start of an event.
UI == [knobs |-> app.knobs, p |-> physics, notes |-> surfaceToNote,
       handed |-> << >>]

\* The effect of the listeners of one event on the state.
UIBecomes(u) ==
    /\ physics' = u.p
    /\ surfaceToNote' = u.notes
    /\ app' = [app EXCEPT !.knobs = u.knobs, !.handed = u.handed]
    /\ budget' = Spend("ops")
    /\ UNCHANGED << timers, now, impactLog, activeCollisions >>

\* 'mousedown' (or 'touchstart') on a knob: startKnobDrag.
StartKnobDrag(ys) ==
    /\ budget.ops > 0
    /\ \E knobId \in DOMAIN app.knobs, clientY \in ys :
          UIBecomes([UI EXCEPT !.knobs = startKnobDrag(@, knobId, clientY)])

\* 'mousemove' (or 'touchmove') on the document: updateKnobDrag for every
\* knob, each followed by ui.onParameterChange() if the value has changed.
PointerMove(ys) ==
    /\ budget.ops > 0
    /\ \E clientY \in ys : UIBecomes(pointerMove(UI, 1, clientY))

\* 'mouseup' (or 'touchend') on the document: endKnobDrag for every knob.
PointerUp ==
    /\ budget.ops > 0
    /\ UIBecomes([UI EXCEPT
                     !.knobs = [id \in DOMAIN app.knobs |-> endKnobDrag(app.knobs, id)[id]]])

InitKnobs == AppInit(KnobInitial, Budget(MaxKnobOps, 0, 0, 0))

NextKnobs ==
    \/ StartKnobDrag(PointerYs)
    \/ PointerMove(PointerYs)
    \/ PointerUp

SpecKnobs == InitKnobs /\ [][NextKnobs]_vars

\* Every knob is within [min, max] and on its step grid.
KnobsInRange ==
    \A id \in DOMAIN app.knobs :
        LET knob == app.knobs[id]
        IN  /\ knob.value \in knob.min..knob.max
            /\ (knob.value - knob.min) % knob.step = 0

\* The parameters params are in the ranges of the four knobs.
InKnobRanges(params) ==
    /\ params.vanes \in 1..7
    /\ params.drumSize \in 40..80
    /\ params.vaneHeight \in 10..50
    /\ params.rpm \in 0..35

MaxSelectOps == 3
MaxSelectSteps == 2

SelectDrumSizes == {40, 60, 80}

\* The change handler of ballTypeSelect with the value 'sandbag':
\* this.physics.setSandbagBall is undefined, the call throws a TypeError
\* and the handler ends there, before reset() and ui.render().
SelectSandbag ==
    /\ budget.ops > 0
    /\ budget' = Spend("ops")
    /\ UNCHANGED << physics, timers, now, impactLog, activeCollisions,
                    surfaceToNote, app >>

InitSelect ==
    \E size \in SelectDrumSizes :
        AppInit([KnobInitial EXCEPT !.drumSize = size],
                Budget(MaxSelectOps, 0, MaxSelectSteps, 0))

NextSelect ==
    \/ SelectTennis
    \/ SelectSandbag
    \/ SetBalloonBall
    \/ Step({SubstepMicros})

SpecSelect == InitSelect /\ [][NextSelect]_vars

\* C30 -- Ball-type selection: choosing 'tennis' or 'sandbag' in the
\* selector while the simulation is not running leaves the ball at its
\* initial placement (reset() has run: the ball at rest at 0.3 * drumRadius
\* on the x axis, the drum at angle 0); no option ends in an error that
\* skips the reset.
C30_Select ==
    [][(SelectTennis \/ SelectSandbag) /\ ~app.isRunning
       => /\ physics'.ball = reset(physics').ball
          /\ physics'.drumAngle = 0]_vars

=============================================================================
